---- MODULE Spec2Model ----
(***************************************************************************)
(* altreg: a private cargo registry that serves index metadata and crate   *)
(* archives, accepts local publishes and falls back to crates.io, caching  *)
(* what it fetched.                                                        *)
(*                                                                         *)
(* The model follows the request handlers of src/src/api.rs (publish,      *)
(* yank, unyank), src/src/index.rs (metadata read) and the store wrapper   *)
(* src/src/db.rs.  Every handler runs as a task; a task takes one step per *)
(* access to shared state (the sled tree, the file system, the docs queue, *)
(* the upstream registry).  The code between two such accesses only works  *)
(* on the task's own locals and is folded into the step that follows the   *)
(* access it starts from.  The handlers run on tokio's multi-threaded      *)
(* runtime, so the steps of different tasks interleave freely.             *)
(*                                                                         *)
(* Left out of the records: dependency lists, feature maps, links and the  *)
(* author-supplied metadata other than name and version; no handler        *)
(* modelled here branches on them.                                         *)
(***************************************************************************)
EXTENDS Integers, Sequences, FiniteSets, TLC

VARIABLES
    crate_tree,   \* Db.crate_tree: crate name -> Option<bytes of an Entry>
    files,        \* the crate files under data_dir: <<name, version>> -> Option<bytes>
    docs_queue,   \* the unbounded channel to the docs builder
    now,          \* chrono::Utc::now(), in minutes
    offline,      \* Config.offline
    pc,           \* per task: where its handler stands
    req,          \* per task: the request it is serving
    loc,          \* per task: the handler's local variables
    resp,         \* per task: the response it produced
    mode,         \* "conc": requests overlap; "seq": one request at a time
    nreq,         \* requests taken so far
    accepted,     \* history: per crate name, publishes committed to the crate tree
    conc,         \* history: per task, the tasks whose request overlapped its own
    seen,         \* history: per task, the record its handler read from the crate tree
    last,         \* history ("seq"): the request served before the current one
    call,         \* history: per task, what its Db::modify_crate call has done so far
                  \* and how many requests its handler has sent to upstream
    token_tree,   \* Db.token_tree: SHA-256 digest of a token -> Option<bytes of a TokenEntry>
    user_tree,    \* Db.user_tree: username -> Option<bytes of a User>
    issued,       \* history: the tokens issued: the bytes OsRng gave, owner, label,
                  \* and whether the token has been revoked since
    worker,       \* the docs builder thread: "idle", "busy" or "dead"
    decoder,      \* the publish body in the decoder, the build, and the decoder's outcome
    prefix        \* the crate name handed to crate_prefix, and its outcome

\* The token store, the user store and the random source.
auth_vars == <<token_tree, user_tree, issued>>

vars == <<crate_tree, files, docs_queue, now, offline, pc, req, loc, resp,
          mode, nreq, accepted, conc, seen, last, call, auth_vars, worker, decoder, prefix>>

----------------------------------------------------------------------------
(* Bounds of the model *)

MaxRequests == 2      \* requests taken when requests overlap
MaxSeqRequests == 3   \* requests taken when they are served one at a time
MaxTicks == 2         \* steps of the clock

\* The width in bits of a length prefix of the publish body.  The code reads a
\* u32; the model keeps the arithmetic and scales the width down, so that every
\* value of a prefix is enumerated: a prefix is in 0 .. 2^PrefixBits - 1, a
\* target whose usize is as wide as the prefix (u32 on a 32-bit target) has
\* PrefixBits bits, and one whose usize is twice as wide (64-bit) has
\* 2 * PrefixBits bits.
PrefixBits == 4
\* The longest publish body drawn; it fits the memory of the narrow target.
MaxBodyLen == 12
\* Calls of Db::modify_crate made while other clients keep writing the record.
MaxContendedCalls == 1
\* The longest crate name drawn, in chars ("cargo" has five).
MaxNameChars == 5

Tasks == {"t1", "t2"}
SeqTask == "t1"
\* The crate names of a run: those the crate tree is looked at for.
Names == DOMAIN crate_tree
\* The names of the stock start, and of the start in which a second name's crate
\* path leads through the directory of the first.
StockNames == {"foo"}
PathNames == {"foo", "bar/../foo"}
VersionStrings == {"1.2.0", "1.10.0", "2.0.0", "1.x"}
Blobs == {"tarball-a", "tarball-b"}

----------------------------------------------------------------------------
(* Option<T> and Result<T, E> *)

None == <<>>
Some(x) == <<x>>
IsSome(o) == o # <<>>
Unwrap(o) == o[1]

----------------------------------------------------------------------------
(* semver::Version *)

\* Version::parse on the version strings of the model: "1.x" is no semver.
Version_parse(s) ==
    CASE s = "1.2.0"  -> Some(<<1, 2, 0>>)
      [] s = "1.10.0" -> Some(<<1, 10, 0>>)
      [] s = "2.0.0"  -> Some(<<2, 0, 0>>)
      [] OTHER        -> None

\* Ord of semver::Version: major, then minor, then patch.
VersionLess(a, b) ==
    \/ a[1] < b[1]
    \/ a[1] = b[1] /\ a[2] < b[2]
    \/ a[1] = b[1] /\ a[2] = b[2] /\ a[3] < b[3]

----------------------------------------------------------------------------
(* package.rs *)

Metadata(name, vers) == [name |-> name, vers |-> vers]

to_package(metadata, cksum) ==
    [name |-> metadata.name, vers |-> metadata.vers, cksum |-> cksum, yanked |-> FALSE]

\* Sha256::digest formatted as hex: one digest per content.
Sha256Hex(data) == <<"sha256", data>>

UploadedPackage(pkg, upload_meta, upload_timestamp) ==
    [pkg |-> pkg, upload_meta |-> upload_meta, upload_timestamp |-> upload_timestamp]

Entry(versions, time_of_last_update, is_local) ==
    [versions |-> versions, time_of_last_update |-> time_of_last_update, is_local |-> is_local]

\* bincode::serialize / bincode::deserialize of an Entry
serialize(entry) == [bincode |-> entry]
deserialize(raw) == raw.bincode

\* Bytes that are not the encoding of an Entry: a record cut short, or written by
\* an earlier version of the registry (Db::open goes on with such a database,
\* db.rs:32-37).
CorruptBytes == [garbage |-> "truncated"]

\* bincode::deserialize returns Ok on these bytes.
Decodable(raw) == "bincode" \in DOMAIN raw

----------------------------------------------------------------------------
(* db.rs: the crate tree *)

\* Db::get_crate
get_crate(crate_name) ==
    IF IsSome(crate_tree[crate_name])
    THEN Some(deserialize(Unwrap(crate_tree[crate_name])))
    ELSE None

\* Db::get_crate with its Err (db.rs:57-64): ok = FALSE is "could not deserialise
\* metadata in crate entry".
try_get_crate(crate_name) ==
    IF ~IsSome(crate_tree[crate_name]) THEN [ok |-> TRUE, value |-> None]
    ELSE IF Decodable(Unwrap(crate_tree[crate_name]))
    THEN [ok |-> TRUE, value |-> Some(deserialize(Unwrap(crate_tree[crate_name])))]
    ELSE [ok |-> FALSE, value |-> None]

\* Db::iter_crates (db.rs:128-138), consumed to its end: the expect() on a record
\* that does not deserialize panics.
iter_crates ==
    IF \E n \in DOMAIN crate_tree :
          IsSome(crate_tree[n]) /\ ~Decodable(Unwrap(crate_tree[n]))
    THEN [panic |-> TRUE, items |-> {}]
    ELSE [panic |-> FALSE,
          items |-> {<<n, deserialize(Unwrap(crate_tree[n]))>> :
                       n \in {k \in DOMAIN crate_tree : IsSome(crate_tree[k])}}]

\* Db::insert_crate: a full overwrite of the record
insert_crate(crate_name, entry) ==
    crate_tree' = [crate_tree EXCEPT ![crate_name] = Some(serialize(entry))]

\* A crate name as the components Path::join makes of it.
path_components(name) ==
    IF name = "bar/../foo" THEN <<"bar", "..", "foo">> ELSE <<name>>

\* main.rs:345-347 crate_path, format!("{}/{}/download", name, version), joined
\* to data_dir/crates (main.rs:146-149, 269-272; api.rs:130, dl.rs:24).
crate_path(name, version) == path_components(name) \o <<version, "download">>

\* The file a path names under data_dir/crates: ".." steps to the parent directory.
RECURSIVE resolve(_)
resolve(path) ==
    IF path = <<>> THEN <<>>
    ELSE LET parent == resolve(SubSeq(path, 1, Len(path) - 1)) IN
         IF path[Len(path)] = ".." THEN SubSeq(parent, 1, Len(parent) - 1)
         ELSE Append(parent, path[Len(path)])

\* File::create(cache_path) and write_all(bytes): every (name, version) whose
\* crate path names the file written reads the bytes from then on.
write_file(name, version, bytes) ==
    files' = [k \in DOMAIN files |->
                IF resolve(crate_path(k[1], k[2])) = resolve(crate_path(name, version))
                THEN Some(bytes) ELSE files[k]]

----------------------------------------------------------------------------
(* token.rs and db.rs: API tokens and users *)

Usernames == {"alice", "bob"}
Labels == {"ci", "dev"}

\* The values OsRng.fill_bytes can leave in the 32-byte buffer (token.rs:48-49).
TokenBytes == {"k1", "k2", "k3", "k4"}

\* The record kept of a token handed out.
Issued(bytes, username, label) ==
    [bytes |-> bytes, username |-> username, label |-> label, revoked |-> FALSE]

\* A digest that is the same for all token bytes.
Sha256_collide(bytes) == [sha256 |-> "k1"]

\* Sha256::digest of the token bytes: the key of the token tree.
Sha256(bytes) == [sha256 |-> bytes]

\* bs58::encode(token).into_string(): text over the base58 alphabet.
bs58_encode(bytes) == [alphabet |-> "base58", text |-> bytes]

\* The strings a client may send as its token: the encodings of token values,
\* and a text with a character outside the base58 alphabet.
TokenStrings ==
    {bs58_encode(k) : k \in TokenBytes} \cup {[alphabet |-> "other", text |-> "0OIl"]}

\* bs58::decode(token).into_vec(): the bytes, or an error on a character outside
\* the alphabet.
bs58_decode(string) ==
    IF string.alphabet = "base58" THEN Some(string.text) ELSE None

\* token.rs:16-20
TokenEntry(username, label) == [username |-> username, label |-> label]

\* auth::User, as far as the token code reads it.
User(username) == [username |-> username]

\* Db::insert_token (db.rs:185-193): the bincode bytes under the digest.
insert_token(hashed_token, entry) ==
    token_tree' = [token_tree EXCEPT ![hashed_token] = Some(serialize(entry))]

\* Db::get_user (db.rs:140-147)
get_user(username) ==
    IF IsSome(user_tree[username]) THEN Some(deserialize(Unwrap(user_tree[username])))
    ELSE None

\* get_token_user that does not ask for the user record of the owner.
get_token_user_orphan(hashed_token) ==
    IF ~IsSome(token_tree[hashed_token]) THEN None
    ELSE LET entry == deserialize(Unwrap(token_tree[hashed_token]))
         IN Some(<<entry, User(entry.username)>>)

\* Db::get_token_user (db.rs:163-183): the token record under the digest and the
\* user it names; None when either is missing.
get_token_user(hashed_token) ==
    IF ~IsSome(token_tree[hashed_token]) THEN None
    ELSE LET entry == deserialize(Unwrap(token_tree[hashed_token]))
             user == get_user(entry.username)
         IN IF IsSome(user) THEN Some(<<entry, Unwrap(user)>>) ELSE None

\* token::lookup_token (token.rs:62-68): ok = FALSE is the Err of a failed decode.
lookup_token(token) ==
    LET decoded == bs58_decode(token)
    IN IF decoded = None THEN [ok |-> FALSE, value |-> None]
       ELSE [ok |-> TRUE, value |-> get_token_user(Sha256(Unwrap(decoded)))]

\* get_user_tokens finding nothing.
get_user_tokens_none(username) == {}

\* token::get_user_tokens (token.rs:70-80): the entries of the user, as a set.
get_user_tokens(username) ==
    {deserialize(Unwrap(token_tree[h])) : h \in {g \in DOMAIN token_tree :
        IsSome(token_tree[g]) /\ deserialize(Unwrap(token_tree[g])).username = username}}

\* The Authorization header of a request: absent, bytes that are no string
\* (HeaderValue::to_str fails), or a string.
Headers ==
    {[kind |-> "missing", token |-> None], [kind |-> "bytes", token |-> None]}
    \cup {[kind |-> "str", token |-> Some(s)] : s \in TokenStrings}

\* An extractor that lets every header pass that holds a string.
from_request_parts_anystr(header) ==
    IF header.kind = "str"
    THEN [ok |-> TRUE, detail |-> "", value |-> Some(<<TokenEntry("", ""), User("")>>)]
    ELSE [ok |-> FALSE, detail |-> "missing authorization token", value |-> None]

\* ApiAuth::from_request_parts (token.rs:118-135): Ok(ApiAuth(entry, user)), or
\* the 403 response with its detail.
from_request_parts(header) ==
    IF header.kind = "missing"
    THEN [ok |-> FALSE, detail |-> "missing authorization token", value |-> None]
    ELSE IF header.kind = "bytes"
    THEN [ok |-> FALSE, detail |-> "invalid authorization token", value |-> None]
    ELSE LET found == lookup_token(Unwrap(header.token))
         IN IF found.ok /\ IsSome(found.value)
            THEN [ok |-> TRUE, detail |-> "", value |-> found.value]
            ELSE [ok |-> FALSE, detail |-> "invalid authorization token", value |-> None]

\* The headers the extractor lets through to the handler.
Authorized == {header \in Headers : from_request_parts(header).ok}

\* The stores with one user and one token of hers.
StockAuth ==
    /\ user_tree = [u \in Usernames |-> IF u = "alice" THEN Some(serialize(User(u))) ELSE None]
    /\ token_tree = [h \in {Sha256(k) : k \in TokenBytes} |->
                       IF h = Sha256("k1") THEN Some(serialize(TokenEntry("alice", "ci")))
                       ELSE None]
    /\ issued = {Issued("k1", "alice", "ci")}

----------------------------------------------------------------------------
(* api.rs add_crate, main.rs add_crate: the decoder of the publish body *)

\* The values of a length prefix (u32::from_le_bytes).
PrefixValues == 0 .. (2^PrefixBits - 1)

\* The widths of usize on the targets the crate builds for.
UsizeBits == {PrefixBits, 2 * PrefixBits}

\* a + b in usize.  An overflowing sum panics in a build with overflow checks
\* (the dev profile) and wraps in one without (the release profile).
usize_add(a, b, bits, overflow_checks) ==
    IF a + b < 2^bits THEN [panic |-> FALSE, value |-> a + b]
    ELSE IF overflow_checks THEN [panic |-> TRUE, value |-> 0]
    ELSE [panic |-> FALSE, value |-> (a + b) % 2^bits]

\* Bytes::slice(begin..end) of a body of len bytes panics unless
\* begin <= end <= len.
slice_panics(len, begin, end) == begin > end \/ end > len

NoDecoder ==
    [len |-> 0, meta_length |-> 0, data_length |-> 0, bits |-> 2 * PrefixBits,
     overflow_checks |-> FALSE, result |-> "none", metadata |-> <<0, 0>>, data |-> <<0, 0>>]

DecodeOutcome(result, metadata, data) ==
    [result |-> result, metadata |-> metadata, data |-> data]

\* api.rs:51-67 (the same lines as main.rs:192-208) on a body of len bytes whose
\* first four bytes hold meta_length and whose four bytes at data_offset hold
\* data_length.  The outcome is "too_short" (create_error("body too short")),
\* "panic", or "ok" with the two ranges sliced.
decode_body(len, meta_length, data_length, bits, overflow_checks) ==
    IF len < 4 THEN DecodeOutcome("too_short", <<0, 0>>, <<0, 0>>)
    ELSE
    LET data_offset == usize_add(4, meta_length, bits, overflow_checks)
        data_start == usize_add(data_offset.value, 4, bits, overflow_checks)
        data_end == usize_add(data_start.value, data_length, bits, overflow_checks)
    IN  IF data_offset.panic \/ data_start.panic
        THEN DecodeOutcome("panic", <<0, 0>>, <<0, 0>>)
        ELSE IF len < data_start.value
        THEN DecodeOutcome("too_short", <<0, 0>>, <<0, 0>>)
        ELSE IF slice_panics(len, 4, data_offset.value)
                \/ slice_panics(len, data_offset.value, data_start.value)
        THEN DecodeOutcome("panic", <<0, 0>>, <<0, 0>>)
        ELSE IF data_end.panic
        THEN DecodeOutcome("panic", <<0, 0>>, <<0, 0>>)
        ELSE IF len < data_end.value
        THEN DecodeOutcome("too_short", <<0, 0>>, <<0, 0>>)
        ELSE IF slice_panics(len, data_start.value, data_end.value)
        THEN DecodeOutcome("panic", <<0, 0>>, <<0, 0>>)
        ELSE DecodeOutcome("ok", <<4, data_offset.value>>,
                           <<data_start.value, data_end.value>>)

\* The handler decodes the body it was given.
DecodeBody ==
    /\ decoder.result = "none"
    /\ LET out == decode_body(decoder.len, decoder.meta_length, decoder.data_length,
                              decoder.bits, decoder.overflow_checks)
       IN decoder' = [decoder EXCEPT !.result = out.result, !.metadata = out.metadata,
                                     !.data = out.data]
    /\ UNCHANGED <<crate_tree, files, docs_queue, now, offline, pc, req, loc, resp,
                   mode, nreq, accepted, conc, seen, last, call, auth_vars, worker, prefix>>

----------------------------------------------------------------------------
(* mirror.rs, lib.rs, main.rs: crate_prefix *)

\* A crate name is a str: a sequence of chars, each with its length in UTF-8.
Char(ch, len_utf8) == [ch |-> ch, len_utf8 |-> len_utf8]

Alphabet ==
    {Char("c", 1), Char("a", 1), Char("r", 1), Char("g", 1), Char("o", 1), Char("e_acute", 2)}

RECURSIVE str_len(_)
\* str::len: the length of the name in bytes.
str_len(name) ==
    IF name = <<>> THEN 0 ELSE Head(name).len_utf8 + str_len(Tail(name))

\* name.chars().take(n).collect()
chars_take(name, n) == SubSeq(name, 1, IF Len(name) < n THEN Len(name) ELSE n)

PrefixOutcome(panic, value) == [panic |-> panic, value |-> value]

\* crate_prefix as written, its match on the byte length; chars[i] outside the
\* collected Vec panics.
crate_prefix(name) ==
    LET len == str_len(name) IN
    IF len = 1 THEN PrefixOutcome(FALSE, <<"1">>)
    ELSE IF len = 2 THEN PrefixOutcome(FALSE, <<"2">>)
    ELSE IF len = 3 THEN PrefixOutcome(FALSE, <<"3", "/", name[1].ch>>)
    ELSE LET chars == chars_take(name, 4) IN
         IF Len(chars) < 4 THEN PrefixOutcome(TRUE, <<>>)
         ELSE PrefixOutcome(FALSE, <<chars[1].ch, chars[2].ch, "/", chars[3].ch, chars[4].ch>>)

NoPrefix == [name |-> <<>>, called |-> FALSE, out |-> PrefixOutcome(FALSE, <<>>)]

\* mirror.rs:10  let prefix = crate_prefix(name);
CratePrefix ==
    /\ ~prefix.called
    /\ prefix' = [prefix EXCEPT !.called = TRUE, !.out = crate_prefix(prefix.name)]
    /\ UNCHANGED <<crate_tree, files, docs_queue, now, offline, pc, req, loc, resp,
                   mode, nreq, accepted, conc, seen, last, call, auth_vars, worker, decoder>>

----------------------------------------------------------------------------
(* Tasks *)

NoReq == [op |-> "idle", name |-> "", vers |-> "", data |-> ""]
NoLoc == [entry |-> None]
NoResp == [status |-> 0, detail |-> "", body |-> <<>>]
NoCall == [invoked |-> FALSE, erred |-> FALSE, committed |-> FALSE, fetches |-> 0]

\* The handler of t has sent one more request to upstream.
CallUpstream(t) == call' = [call EXCEPT ![t].fetches = @ + 1]

Active == {u \in Tasks : pc[u] \notin {"idle", "done"}}

\* The task is free and the bound on requests allows one more.
CanStart(t) ==
    /\ pc[t] = "idle"
    /\ IF mode = "seq" THEN t = SeqTask /\ nreq < MaxSeqRequests ELSE nreq < MaxRequests

\* A task takes a request: its handler starts.
Start(t, r) ==
    /\ CanStart(t)
    /\ nreq' = nreq + 1
    /\ req' = [req EXCEPT ![t] = r]
    /\ seen' = [seen EXCEPT ![t] =
                  IF r.name \notin Names THEN None
                  ELSE IF r.op = "crate_download" THEN files[<<r.name, r.vers>>]
                  ELSE try_get_crate(r.name).value]
    /\ call' = [call EXCEPT ![t] = NoCall]
    /\ UNCHANGED <<mode, last>>
    /\ conc' = [u \in Tasks |->
                  IF u = t THEN Active \ {t}
                  ELSE IF u \in Active THEN conc[u] \cup {t} ELSE conc[u]]

\* The handler returns (status, body).
Finish(t, status, detail, body) ==
    /\ pc' = [pc EXCEPT ![t] = "done"]
    /\ resp' = [resp EXCEPT ![t] = [status |-> status, detail |-> detail, body |-> body]]

Goto(t, label) ==
    /\ pc' = [pc EXCEPT ![t] = label]
    /\ UNCHANGED resp

\* The response has been written out; the task is free for the next request.
Reset(t) ==
    /\ pc[t] = "done"
    /\ pc' = [pc EXCEPT ![t] = "idle"]
    /\ req' = [req EXCEPT ![t] = NoReq]
    /\ loc' = [loc EXCEPT ![t] = NoLoc]
    /\ resp' = [resp EXCEPT ![t] = NoResp]
    /\ conc' = [u \in Tasks |-> IF u = t THEN {} ELSE conc[u] \ {t}]
    /\ seen' = [seen EXCEPT ![t] = None]
    /\ call' = [call EXCEPT ![t] = NoCall]
    /\ last' = IF mode = "seq"
               THEN [req |-> req[t], status |-> resp[t].status, seen |-> seen[t]]
               ELSE last
    /\ UNCHANGED <<crate_tree, files, docs_queue, now, offline, auth_vars, worker, decoder, prefix, mode, nreq, accepted>>

----------------------------------------------------------------------------
(* api.rs: add_crate *)

\* A variant of ShadowsUpstream that lets every publish through.
ShadowsUpstream_never(entry) == FALSE

\* api.rs:80 "Make sure we don't publish new versions of existing upstream crates"
ShadowsUpstream(entry) == ~entry.is_local

\* api.rs:88-97: the loop over the stored versions.  It ends at the first stored
\* version that fails to parse ("err") or equals the new one ("dup"); otherwise
\* it tells whether some stored version is greater than the new one.
RECURSIVE ScanVersions(_, _, _, _)
ScanVersions(versions, i, new_version, is_older_than_latest) ==
    IF i > Len(versions)
    THEN [kind |-> "ok", is_older_than_latest |-> is_older_than_latest]
    ELSE LET existing_version == Version_parse(versions[i].pkg.vers) IN
         IF existing_version = None
         THEN [kind |-> "err", is_older_than_latest |-> is_older_than_latest]
         ELSE IF new_version = Unwrap(existing_version)
         THEN [kind |-> "dup", is_older_than_latest |-> is_older_than_latest]
         ELSE ScanVersions(versions, i + 1, new_version,
                           is_older_than_latest
                             \/ VersionLess(new_version, Unwrap(existing_version)))

\* A variant of InsertByVersion that puts the element in front.
InsertByVersion_front(sorted, x) == <<x>> \o sorted

\* Insert one element into a sequence that is ascending by parsed version.
RECURSIVE InsertByVersion(_, _)
InsertByVersion(sorted, x) ==
    IF sorted = <<>> THEN <<x>>
    ELSE IF VersionLess(Unwrap(Version_parse(x.pkg.vers)),
                        Unwrap(Version_parse(Head(sorted).pkg.vers)))
         THEN <<x>> \o sorted
         ELSE <<Head(sorted)>> \o InsertByVersion(Tail(sorted), x)

\* A variant of sort_by_version that leaves the pushed version at the end.
sort_by_version_none(versions) == versions

\* api.rs:106-109: sort_unstable_by_key on the parsed version (the keys are
\* distinct and parse: the loop above has returned otherwise).
RECURSIVE sort_by_version(_)
sort_by_version(versions) ==
    IF versions = <<>> THEN <<>>
    ELSE InsertByVersion(sort_by_version(SubSeq(versions, 1, Len(versions) - 1)),
                         versions[Len(versions)])

\* api.rs:99-111: push the new version, re-sort when it is older than a stored one.
PushVersion(entry, metadata, cksum, time, is_older_than_latest) ==
    LET pushed == Append(entry.versions,
                         UploadedPackage(to_package(metadata, cksum), Some(metadata), Some(time)))
    IN Entry(IF is_older_than_latest THEN sort_by_version(pushed) ELSE pushed,
             time, entry.is_local)

\* api.rs:114-125: the entry of a crate published for the first time.
FirstEntry(metadata, cksum, time) ==
    Entry(<<UploadedPackage(to_package(metadata, cksum), Some(metadata), Some(time))>>,
          time, TRUE)

\* api.rs:75-126: what add_crate makes of the record it read.  status 0: go on
\* to insert `entry`; otherwise the response.
AddCrateDecide(got, metadata, cksum, time) ==
    IF got = None
    THEN [status |-> 0, detail |-> "", entry |-> Some(FirstEntry(metadata, cksum, time))]
    ELSE LET entry == Unwrap(got)
             new_version == Version_parse(metadata.vers)
         IN IF ShadowsUpstream(entry)
            THEN [status |-> 400,
                  detail |-> "attempted to upload crate with the same name as a cached upstream crate",
                  entry |-> None]
            ELSE IF new_version = None
            THEN [status |-> 500, detail |-> "something went wrong", entry |-> None]
            ELSE LET scan == ScanVersions(entry.versions, 1, Unwrap(new_version), FALSE) IN
                 CASE scan.kind = "err" ->
                        [status |-> 500, detail |-> "something went wrong", entry |-> None]
                   [] scan.kind = "dup" ->
                        [status |-> 400, detail |-> "attempted to upload existing version",
                         entry |-> None]
                   [] OTHER ->
                        [status |-> 0, detail |-> "",
                         entry |-> Some(PushVersion(entry, metadata, cksum, time,
                                                    scan.is_older_than_latest))]

\* api.rs:75-111: db.get_crate and the checks on what it returned.
AddCrateGet(t) ==
    /\ CanStart(t)
    /\ \E header \in Authorized, name \in Names, vers \in VersionStrings, data \in Blobs :
        LET d == AddCrateDecide(get_crate(name), Metadata(name, vers), Sha256Hex(data), now) IN
        /\ Start(t, [op |-> "add_crate", name |-> name, vers |-> vers, data |-> data,
                     header |-> header])
        /\ loc' = [loc EXCEPT ![t] = [entry |-> d.entry]]
        /\ IF d.status = 0 THEN Goto(t, "insert") ELSE Finish(t, d.status, d.detail, <<>>)
        /\ UNCHANGED <<crate_tree, files, docs_queue, now, offline, auth_vars, worker, decoder, prefix, accepted>>

\* api.rs:112 and api.rs:125: db.insert_crate(&crate_name, &entry)
AddCrateInsert(t) ==
    /\ pc[t] = "insert" /\ req[t].op = "add_crate"
    /\ insert_crate(req[t].name, Unwrap(loc[t].entry))
    /\ accepted' = [accepted EXCEPT ![req[t].name] = @ + 1]
    /\ Goto(t, "file")
    /\ UNCHANGED <<files, docs_queue, now, offline, auth_vars, worker, decoder, prefix, req, loc, mode, nreq, conc, seen, last, call>>

\* api.rs:129-138: File::create and write_all of the crate file; either may fail,
\* and then the handler returns the error with nothing written.
AddCrateStoreFile(t) ==
    /\ pc[t] = "file" /\ req[t].op = "add_crate"
    /\ \/ /\ write_file(req[t].name, req[t].vers, req[t].data)
          /\ Goto(t, "notify")
       \/ /\ Finish(t, 500, "something went wrong", <<>>)
          /\ UNCHANGED files
    /\ UNCHANGED <<crate_tree, docs_queue, now, offline, auth_vars, worker, decoder, prefix, req, loc, mode, nreq, accepted, conc, seen, last, call>>

\* api.rs:140-143: docs_queue_tx.send and the 200 response.  The send fails when
\* the receiver is gone, which the builder thread owns (docs.rs:9, 12), and the
\* handler returns the error.
AddCrateNotify(t) ==
    /\ pc[t] = "notify" /\ req[t].op = "add_crate"
    /\ IF worker = "dead"
       THEN /\ Finish(t, 500, "something went wrong", <<>>)
            /\ UNCHANGED docs_queue
       ELSE /\ docs_queue' = Append(docs_queue, <<req[t].name, req[t].vers>>)
            /\ Finish(t, 200, "", <<>>)
    /\ UNCHANGED <<crate_tree, files, now, offline, auth_vars, worker, decoder, prefix, req, loc, mode, nreq, accepted, conc, seen, last, call>>

----------------------------------------------------------------------------
(* api.rs: yank_crate and unyank_crate *)

\* api.rs:170-175 and api.rs:213-218: iter_mut().find on the parsed version.  Each
\* stored version visited is parsed with expect(): "panic" when one does not parse.
RECURSIVE FindVersion(_, _, _)
FindVersion(versions, i, yank_version) ==
    IF i > Len(versions) THEN [kind |-> "none", index |-> 0]
    ELSE LET existing_version == Version_parse(versions[i].pkg.vers) IN
         IF existing_version = None THEN [kind |-> "panic", index |-> i]
         ELSE IF Unwrap(existing_version) = yank_version THEN [kind |-> "found", index |-> i]
         ELSE FindVersion(versions, i + 1, yank_version)

\* A variant of AlreadySet that lets every toggle through.
AlreadySet_never(package, flag) == FALSE

\* api.rs:177 `if package.pkg.yanked` and api.rs:220 `if !package.pkg.yanked`
AlreadySet(package, flag) == package.pkg.yanked = flag

\* A variant of SetYanked in which unyank sets the flag as yank does.
SetYanked_sticky(entry, index, flag) ==
    [entry EXCEPT !.versions[index].pkg.yanked = TRUE]

\* api.rs:181 and api.rs:224: package.pkg.yanked = flag, on the handler's copy.
SetYanked(entry, index, flag) ==
    [entry EXCEPT !.versions[index].pkg.yanked = flag]

\* api.rs:159-184 (flag = TRUE, yank) and api.rs:202-227 (flag = FALSE, unyank):
\* what the handler makes of the version string and the record it read.
YankDecide(got, vers, flag) ==
    LET yank_version == Version_parse(vers) IN
    IF yank_version = None
    THEN [status |-> 400, detail |-> "invalid crate version supplied", entry |-> None]
    ELSE IF got = None
    THEN [status |-> 400, detail |-> "crate does not exist in index", entry |-> None]
    ELSE LET entry == Unwrap(got)
             found == FindVersion(entry.versions, 1, Unwrap(yank_version))
         IN CASE found.kind = "panic" ->
                   [status |-> 0, detail |-> "panic", entry |-> None]
              [] found.kind = "none" ->
                   [status |-> 400,
                    detail |-> "crate does not have the specified version published",
                    entry |-> None]
              [] AlreadySet(entry.versions[found.index], flag) ->
                   [status |-> 400,
                    detail |-> IF flag THEN "version has already been yanked"
                               ELSE "version has not been yanked",
                    entry |-> None]
              [] OTHER ->
                   [status |-> 0, detail |-> "", entry |-> Some(SetYanked(entry, found.index, flag))]

\* api.rs:159-181: the version parse, db.get_crate and the checks.  A panic of the
\* handler ends the request with no response (status 0, detail "panic").
YankGet(t) ==
    /\ CanStart(t)
    /\ \E header \in Authorized, name \in Names, vers \in VersionStrings :
        LET d == YankDecide(get_crate(name), vers, TRUE) IN
        /\ Start(t, [op |-> "yank_crate", name |-> name, vers |-> vers, data |-> "",
                     header |-> header])
        /\ loc' = [loc EXCEPT ![t] = [entry |-> d.entry]]
        /\ IF d.status = 0 /\ d.detail = "" THEN Goto(t, "insert")
           ELSE Finish(t, d.status, d.detail, <<>>)
        /\ UNCHANGED <<crate_tree, files, docs_queue, now, offline, auth_vars, worker, decoder, prefix, accepted>>

\* api.rs:184-186: "Reinsert the crate into the database"
YankInsert(t) ==
    /\ pc[t] = "insert" /\ req[t].op = "yank_crate"
    /\ insert_crate(req[t].name, Unwrap(loc[t].entry))
    /\ Finish(t, 200, "ok", <<>>)
    /\ UNCHANGED <<files, docs_queue, now, offline, auth_vars, worker, decoder, prefix, req, loc, mode, nreq, accepted, conc, seen, last, call>>

\* api.rs:202-224
UnyankGet(t) ==
    /\ CanStart(t)
    /\ \E header \in Authorized, name \in Names, vers \in VersionStrings :
        LET d == YankDecide(get_crate(name), vers, FALSE) IN
        /\ Start(t, [op |-> "unyank_crate", name |-> name, vers |-> vers, data |-> "",
                     header |-> header])
        /\ loc' = [loc EXCEPT ![t] = [entry |-> d.entry]]
        /\ IF d.status = 0 /\ d.detail = "" THEN Goto(t, "insert")
           ELSE Finish(t, d.status, d.detail, <<>>)
        /\ UNCHANGED <<crate_tree, files, docs_queue, now, offline, auth_vars, worker, decoder, prefix, accepted>>

\* api.rs:227-229
UnyankInsert(t) ==
    /\ pc[t] = "insert" /\ req[t].op = "unyank_crate"
    /\ insert_crate(req[t].name, Unwrap(loc[t].entry))
    /\ Finish(t, 200, "ok", <<>>)
    /\ UNCHANGED <<files, docs_queue, now, offline, auth_vars, worker, decoder, prefix, req, loc, mode, nreq, accepted, conc, seen, last, call>>

----------------------------------------------------------------------------
(* mirror.rs and index.rs: crate_metadata *)

TTL == 30

\* A package record as crates.io serves it.
UpstreamPackage(name, vers) ==
    [name |-> name, vers |-> vers, cksum |-> <<"sha256", "upstream">>, yanked |-> FALSE]

\* mirror::get_package: a transport or status error, a 404, or the index file,
\* whose lines are in the order upstream wrote them.
UpstreamAnswers(name) ==
    { [kind |-> "err", lines |-> <<>>],
      [kind |-> "notfound", lines |-> <<>>],
      [kind |-> "ok", lines |-> <<>>],
      [kind |-> "ok", lines |-> <<UpstreamPackage(name, "1.2.0")>>],
      [kind |-> "ok", lines |-> <<UpstreamPackage(name, "1.2.0"), UpstreamPackage(name, "1.10.0")>>],
      [kind |-> "ok", lines |-> <<UpstreamPackage(name, "1.10.0"), UpstreamPackage(name, "1.2.0")>>] }

\* A variant of has_expired that expires an entry at the age of the TTL.
has_expired_atTTL(entry, time) == time - entry.time_of_last_update >= TTL

\* index.rs:41-42
has_expired(entry, time) == time - entry.time_of_last_update > TTL

\* A variant of ServeFromCache that does not look at the offline setting.
ServeFromCache_online(entry, time) == entry.is_local \/ ~has_expired(entry, time)

\* A variant of ServeFromCache that goes by the age of the entry alone.
ServeFromCache_byAge(entry, time) == offline \/ ~has_expired(entry, time)

\* index.rs:43
ServeFromCache(entry, time) == offline \/ entry.is_local \/ ~has_expired(entry, time)

\* index.rs:45-56: one line per stored version, the package record as JSON.
MetadataLines(entry) == [i \in 1..Len(entry.versions) |-> entry.versions[i].pkg]

\* A variant of MirrorEntry that keeps the time of the entry at the epoch.
MirrorEntry_epoch(lines, time) ==
    Entry([i \in 1..Len(lines) |-> UploadedPackage(lines[i], None, None)], 0, FALSE)

\* index.rs:81-100: the upstream lines as an Entry of the cache.
MirrorEntry(lines, time) ==
    Entry([i \in 1..Len(lines) |-> UploadedPackage(lines[i], None, None)], time, FALSE)

\* index.rs:34-68: db.get, then serve from the cache, or go on to evict an expired
\* mirror entry, or (nothing stored) go on to upstream.
MetaGet(t) ==
    \E name \in Names :
        LET got == get_crate(name) IN
        /\ Start(t, [op |-> "crate_metadata", name |-> name, vers |-> "", data |-> ""])
        /\ loc' = [loc EXCEPT ![t] = [entry |-> got]]
        /\ IF IsSome(got)
           THEN IF ServeFromCache(Unwrap(got), now)
                THEN Finish(t, 200, "", MetadataLines(Unwrap(got)))
                ELSE Goto(t, "remove")
           ELSE IF offline
                THEN Finish(t, 404, "not found", <<>>)
                ELSE Goto(t, "fetch")
        /\ UNCHANGED <<crate_tree, files, docs_queue, now, offline, auth_vars, worker, decoder, prefix, accepted>>

\* index.rs:58-68: "Expired crate": db.remove(crate_name), then the offline check
\* (an offline read never gets here: index.rs:43 serves it from the cache).
MetaRemove(t) ==
    /\ pc[t] = "remove" /\ req[t].op = "crate_metadata"
    /\ crate_tree' = [crate_tree EXCEPT ![req[t].name] = None]
    /\ IF offline THEN Finish(t, 404, "not found", <<>>) ELSE Goto(t, "fetch")
    /\ UNCHANGED <<files, docs_queue, now, offline, auth_vars, worker, decoder, prefix, req, loc, mode, nreq, accepted, conc, seen, last, call>>

\* index.rs:70-109: the answer of mirror::get_package arrives; on an index file the
\* entry is built and inserted, and the upstream text is the response.
MetaFetch(t) ==
    /\ pc[t] = "fetch" /\ req[t].op = "crate_metadata"
    /\ \E upstream \in UpstreamAnswers(req[t].name) :
          CASE upstream.kind = "err" ->
                 /\ Finish(t, 500, "something went wrong", <<>>)
                 /\ UNCHANGED crate_tree
            [] upstream.kind = "notfound" ->
                 /\ Finish(t, 404, "not found", <<>>)
                 /\ UNCHANGED crate_tree
            [] OTHER ->
                 /\ insert_crate(req[t].name, MirrorEntry(upstream.lines, now))
                 /\ Finish(t, 200, "", upstream.lines)
    /\ CallUpstream(t)
    /\ UNCHANGED <<files, docs_queue, now, offline, auth_vars, worker, decoder, prefix, req, loc, mode, nreq, accepted, conc, seen, last>>

----------------------------------------------------------------------------
(* main.rs: the registry as one binary.  Its Entry holds the package records
   themselves (versions: Vec<Package>), and its add_crate rejects a version older
   than a stored one and replaces the record by db.remove followed by db.insert. *)

\* main.rs:216-266: what add_crate makes of the record it read.
MainAddCrateDecide(got, metadata, cksum, time) ==
    IF got = None
    THEN [status |-> 0, detail |-> "",
          entry |-> Some(Entry(<<to_package(metadata, cksum)>>, time, TRUE))]
    ELSE LET entry == Unwrap(got)
             new_version == Version_parse(metadata.vers)
             bad == {i \in 1..Len(entry.versions) :
                        \/ Version_parse(entry.versions[i].vers) = None
                        \/ ~VersionLess(Unwrap(Version_parse(entry.versions[i].vers)),
                                        Unwrap(new_version))}
             first == CHOOSE i \in bad : \A j \in bad : i <= j
         IN IF ~entry.is_local
            THEN [status |-> 400,
                  detail |-> "attempted to upload crate with the same name as a cached upstream crate",
                  entry |-> None]
            ELSE IF new_version = None
            THEN [status |-> 500, detail |-> "something went wrong", entry |-> None]
            ELSE IF bad = {}
            THEN [status |-> 0, detail |-> "",
                  entry |-> Some(Entry(Append(entry.versions, to_package(metadata, cksum)),
                                       time, entry.is_local))]
            ELSE IF Version_parse(entry.versions[first].vers) = None
            THEN [status |-> 500, detail |-> "something went wrong", entry |-> None]
            ELSE IF Unwrap(Version_parse(entry.versions[first].vers)) = Unwrap(new_version)
            THEN [status |-> 400, detail |-> "attempted to upload existing version",
                  entry |-> None]
            ELSE [status |-> 400, detail |-> "attempted to upload older version",
                  entry |-> None]

\* main.rs:216-245: db.get and the checks on what it returned.
MainAddCrateGet(t) ==
    \E name \in Names, vers \in VersionStrings, data \in Blobs :
        LET got == get_crate(name)
            d == MainAddCrateDecide(got, Metadata(name, vers), Sha256Hex(data), now) IN
        /\ Start(t, [op |-> "main_add_crate", name |-> name, vers |-> vers, data |-> data])
        /\ loc' = [loc EXCEPT ![t] = [entry |-> d.entry]]
        /\ IF d.status # 0 THEN Finish(t, d.status, d.detail, <<>>)
           ELSE IF IsSome(got) THEN Goto(t, "remove") ELSE Goto(t, "insert")
        /\ UNCHANGED <<crate_tree, files, docs_queue, now, offline, auth_vars, worker, decoder, prefix, accepted>>

\* main.rs:246-248: "TODO: transaction aware db update": db.remove(&crate_name)
MainAddCrateRemove(t) ==
    /\ pc[t] = "remove" /\ req[t].op = "main_add_crate"
    /\ crate_tree' = [crate_tree EXCEPT ![req[t].name] = None]
    /\ Goto(t, "insert")
    /\ UNCHANGED <<files, docs_queue, now, offline, auth_vars, worker, decoder, prefix, req, loc, mode, nreq, accepted, conc, seen, last, call>>

\* main.rs:249-253 and main.rs:261-265: db.insert(&crate_name, ..)
MainAddCrateInsert(t) ==
    /\ pc[t] = "insert" /\ req[t].op = "main_add_crate"
    /\ insert_crate(req[t].name, Unwrap(loc[t].entry))
    /\ accepted' = [accepted EXCEPT ![req[t].name] = @ + 1]
    /\ Goto(t, "file")
    /\ UNCHANGED <<files, docs_queue, now, offline, auth_vars, worker, decoder, prefix, req, loc, mode, nreq, conc, seen, last, call>>

\* main.rs:268-282: the crate file is written and the request answered 200, or
\* the write fails.
MainAddCrateStoreFile(t) ==
    /\ pc[t] = "file" /\ req[t].op = "main_add_crate"
    /\ \/ /\ write_file(req[t].name, req[t].vers, req[t].data)
          /\ Finish(t, 200, "", <<>>)
       \/ /\ Finish(t, 500, "something went wrong", <<>>)
          /\ UNCHANGED files
    /\ UNCHANGED <<crate_tree, docs_queue, now, offline, auth_vars, worker, decoder, prefix, req, loc, mode, nreq, accepted, conc, seen, last, call>>

\* main.rs:73-104: crate_metadata up to the call of upstream.
MainMetaGet(t) ==
    \E name \in Names :
        LET got == get_crate(name) IN
        /\ Start(t, [op |-> "main_crate_metadata", name |-> name, vers |-> "", data |-> ""])
        /\ loc' = [loc EXCEPT ![t] = [entry |-> got]]
        /\ IF IsSome(got)
           THEN IF ServeFromCache(Unwrap(got), now)
                THEN Finish(t, 200, "", Unwrap(got).versions)
                ELSE Goto(t, "remove")
           ELSE IF offline
                THEN Finish(t, 404, "not found", <<>>)
                ELSE Goto(t, "fetch")
        /\ UNCHANGED <<crate_tree, files, docs_queue, now, offline, auth_vars, worker, decoder, prefix, accepted>>

\* main.rs:96-107: the expired entry is removed; then the offline check.
MainMetaRemove(t) ==
    /\ pc[t] = "remove" /\ req[t].op = "main_crate_metadata"
    /\ crate_tree' = [crate_tree EXCEPT ![req[t].name] = None]
    /\ IF offline THEN Finish(t, 404, "not found", <<>>) ELSE Goto(t, "fetch")
    /\ UNCHANGED <<files, docs_queue, now, offline, auth_vars, worker, decoder, prefix, req, loc, mode, nreq, accepted, conc, seen, last, call>>

\* main.rs:109-139: the answer of upstream arrives.
MainMetaFetch(t) ==
    /\ pc[t] = "fetch" /\ req[t].op = "main_crate_metadata"
    /\ \E upstream \in UpstreamAnswers(req[t].name) :
          CASE upstream.kind = "err" ->
                 /\ Finish(t, 500, "something went wrong", <<>>)
                 /\ UNCHANGED crate_tree
            [] upstream.kind = "notfound" ->
                 /\ Finish(t, 404, "not found", <<>>)
                 /\ UNCHANGED crate_tree
            [] OTHER ->
                 /\ insert_crate(req[t].name, Entry(upstream.lines, now, FALSE))
                 /\ Finish(t, 200, "", upstream.lines)
    /\ CallUpstream(t)
    /\ UNCHANGED <<files, docs_queue, now, offline, auth_vars, worker, decoder, prefix, req, loc, mode, nreq, accepted, conc, seen, last>>

----------------------------------------------------------------------------
(* db.rs: Db::modify_crate, called with the changes the handlers of api.rs make *)

Closures == {"add", "yank", "unyank"}

\* The closure f of a call: one of the three changes of api.rs, as a function of
\* the entry it is handed.  ok: f returned Ok(()) and `entry` is what it left in
\* its argument; otherwise f returned Err(err).
ApplyClosure(r, entry, time) ==
    LET d == CASE r.f = "add"  -> AddCrateDecide(Some(entry), Metadata(r.name, r.vers),
                                                 Sha256Hex(r.data), time)
               [] r.f = "yank" -> YankDecide(Some(entry), r.vers, TRUE)
               [] OTHER        -> YankDecide(Some(entry), r.vers, FALSE)
    IN IF IsSome(d.entry)
       THEN [ok |-> TRUE, entry |-> Unwrap(d.entry), err |-> ""]
       ELSE [ok |-> FALSE, entry |-> entry, err |-> d.detail]

\* db.rs:96-118: the closure modify_crate hands to update_and_fetch, on the bytes
\* `old` read for the key, with `err` as the call holds it.  next: the bytes to
\* store; err: `err` after the invocation; panic: the expect() of db.rs:99-100 on
\* bytes that do not deserialize.
ModifyStep(r, old, err, time) ==
    IF old = None
    THEN [next |-> None, err |-> err, invoked |-> FALSE, ok |-> FALSE, panic |-> FALSE]
    ELSE IF ~Decodable(Unwrap(old))
    THEN [next |-> old, err |-> err, invoked |-> FALSE, ok |-> FALSE, panic |-> TRUE]
    ELSE LET a == ApplyClosure(r, deserialize(Unwrap(old)), time) IN
         IF a.ok
         THEN [next |-> Some(serialize(a.entry)), err |-> err, invoked |-> TRUE, ok |-> TRUE,
               panic |-> FALSE]
         ELSE [next |-> old, err |-> Some(a.err), invoked |-> TRUE, ok |-> FALSE,
               panic |-> FALSE]

\* db.rs:121-125: "Return the error if there was one"
ModifyResult(err) == IF IsSome(err) THEN Unwrap(err) ELSE "Ok"

\* db.rs:93-96: err = None, and update_and_fetch reads the key.
ModifyGet(t) ==
    \E name \in Names, vers \in VersionStrings, data \in Blobs, f \in Closures :
        /\ Start(t, [op |-> "modify_crate", name |-> name, vers |-> vers, data |-> data, f |-> f])
        /\ loc' = [loc EXCEPT ![t] = [current |-> crate_tree[name], err |-> None]]
        /\ Goto(t, "cas")
        /\ UNCHANGED <<crate_tree, files, docs_queue, now, offline, auth_vars, worker, decoder, prefix, accepted>>

\* db.rs:95-119: one round of update_and_fetch: the closure runs on the bytes read,
\* then compare_and_swap stores its result if the key still holds those bytes;
\* if not, the round is repeated on the bytes the key holds now.  A panic of the
\* closure ends the call with no result (detail "panic").
ModifyCas(t) ==
    /\ pc[t] = "cas" /\ req[t].op = "modify_crate"
    /\ LET old == loc[t].current
           m == ModifyStep(req[t], old, loc[t].err, now)
           swapped == crate_tree[req[t].name] = old
       IN /\ call' = [call EXCEPT ![t] =
                        [invoked |-> @.invoked \/ m.invoked,
                         erred |-> @.erred \/ (m.invoked /\ ~m.ok),
                         committed |-> swapped /\ m.next # old,
                         fetches |-> @.fetches]]
          /\ IF m.panic
             THEN /\ Finish(t, 0, "panic", <<>>)
                  /\ UNCHANGED <<crate_tree, loc>>
             ELSE IF swapped
             THEN /\ crate_tree' = [crate_tree EXCEPT ![req[t].name] = m.next]
                  /\ loc' = [loc EXCEPT ![t].err = m.err]
                  /\ Finish(t, 0, ModifyResult(m.err), <<>>)
             ELSE /\ loc' = [loc EXCEPT ![t] = [current |-> crate_tree[req[t].name], err |-> m.err]]
                  /\ UNCHANGED <<crate_tree, pc, resp>>
    /\ UNCHANGED <<files, docs_queue, now, offline, auth_vars, worker, decoder, prefix, req, mode, nreq, accepted, conc, seen, last>>

\* api.rs:159-184 (flag = TRUE) and api.rs:202-227 (flag = FALSE): a yank_crate or
\* unyank_crate request of another client that changes the flag, served from its
\* db.get_crate to its db.insert_crate between two steps of the calls in flight.
ToggleYank ==
    /\ \E name \in Names, vers \in VersionStrings, flag \in BOOLEAN :
          LET d == YankDecide(get_crate(name), vers, flag) IN
          /\ d.status = 0 /\ d.detail = ""
          /\ insert_crate(name, Unwrap(d.entry))
    /\ UNCHANGED <<files, docs_queue, now, offline, auth_vars, worker, decoder, prefix, pc, req,
                   loc, resp, mode, nreq, accepted, conc, seen, last, call>>

----------------------------------------------------------------------------
(* dl.rs: crate_download, and mirror::download_crate *)

\* The bytes upstream serves for a crate file.
UpstreamBlob == "tarball-upstream"

\* mirror.rs:30-49: a transport or status error, a 404, or the bytes.
DownloadAnswers(name, vers) ==
    { [kind |-> "err", bytes |-> None],
      [kind |-> "notfound", bytes |-> None],
      [kind |-> "ok", bytes |-> Some(UpstreamBlob)] }

\* A variant of Persist that writes no file.
Persist_skipped(name, vers, bytes) == UNCHANGED files

\* dl.rs:48-49: File::create(cache_path) and write_all(&bytes)
Persist(name, vers, bytes) == write_file(name, vers, bytes)

\* dl.rs:24-35: cache_path.exists(); the file is read and returned, or, with no
\* file, offline answers 404 and online goes on to upstream.
DlGet(t) ==
    \E name \in Names, vers \in VersionStrings :
        LET cached == files[<<name, vers>>] IN
        /\ Start(t, [op |-> "crate_download", name |-> name, vers |-> vers, data |-> ""])
        /\ loc' = [loc EXCEPT ![t] = [answer |-> "", bytes |-> None]]
        /\ IF IsSome(cached) THEN Finish(t, 200, "", cached)
           ELSE IF offline THEN Finish(t, 404, "", <<>>)
           ELSE Goto(t, "download")
        /\ UNCHANGED <<crate_tree, files, docs_queue, now, offline, auth_vars, worker, decoder, prefix, accepted>>

\* dl.rs:37-40: the answer of mirror::download_crate arrives.
DlFetch(t) ==
    /\ pc[t] = "download" /\ req[t].op = "crate_download"
    /\ \E upstream \in DownloadAnswers(req[t].name, req[t].vers) :
          /\ loc' = [loc EXCEPT ![t] = [answer |-> upstream.kind, bytes |-> upstream.bytes]]
          /\ CASE upstream.kind = "err" -> Finish(t, 500, "something went wrong", <<>>)
               [] upstream.kind = "notfound" -> Finish(t, 404, "", <<>>)
               [] OTHER -> Goto(t, "store")
    /\ CallUpstream(t)
    /\ UNCHANGED <<crate_tree, files, docs_queue, now, offline, auth_vars, worker, decoder, prefix, req, mode, nreq, accepted, conc, seen, last>>

\* dl.rs:42-51: the bytes are written under the crate's path and returned; the
\* write may fail, and then the handler returns the error.
DlStore(t) ==
    /\ pc[t] = "store" /\ req[t].op = "crate_download"
    /\ \/ /\ Persist(req[t].name, req[t].vers, Unwrap(loc[t].bytes))
          /\ Finish(t, 200, "", loc[t].bytes)
       \/ /\ Finish(t, 500, "something went wrong", <<>>)
          /\ UNCHANGED files
    /\ UNCHANGED <<crate_tree, docs_queue, now, offline, auth_vars, worker, decoder, prefix, req, loc, mode, nreq, accepted, conc, seen, last, call>>

----------------------------------------------------------------------------
(* token.rs: issuing, revoking and checking tokens *)

\* The requests the extractor ApiAuth guards (api.rs:39-45, 146-150, 189-193).
AuthenticatedOps == {"add_crate", "yank_crate", "unyank_crate"}

\* ApiAuth::from_request_parts returning Err: the request is answered 403 and its
\* handler never runs.
ApiAuthReject(t) ==
    /\ CanStart(t)
    /\ \E header \in Headers \ Authorized, op \in AuthenticatedOps, name \in Names,
          vers \in VersionStrings :
        LET auth == from_request_parts(header) IN
        /\ Start(t, [op |-> op, name |-> name, vers |-> vers, data |-> "", header |-> header])
        /\ Finish(t, 403, auth.detail, <<>>)
        /\ UNCHANGED <<crate_tree, files, docs_queue, now, offline, auth_vars, worker, decoder, prefix,
                       loc, accepted>>

\* ApiAuth::from_request_parts on its own: what a header resolves to.
ApiAuthExtract(t) ==
    \E header \in Headers :
        LET auth == from_request_parts(header) IN
        /\ Start(t, [op |-> "from_request_parts", name |-> "", vers |-> "", data |-> "",
                     header |-> header])
        /\ IF auth.ok THEN Finish(t, 200, "", Unwrap(auth.value))
           ELSE Finish(t, 403, auth.detail, <<>>)
        /\ UNCHANGED <<crate_tree, files, docs_queue, now, offline, auth_vars, worker, decoder, prefix,
                       loc, accepted>>

\* token::create_token (token.rs:35-60), called by auth_token_create with the
\* username of the session cookie.  OsRng hands out a value it has not handed out
\* before.
CreateToken(t) ==
    \E username \in Usernames, label \in Labels :
        /\ Start(t, [op |-> "create_token", name |-> "", vers |-> "", data |-> "",
                     username |-> username, label |-> label])
        /\ IF TokenEntry(username, label) \in get_user_tokens(username)
           THEN /\ Finish(t, 200, "", None)
                /\ UNCHANGED auth_vars
           ELSE \E token \in TokenBytes \ {i.bytes : i \in issued} :
                /\ insert_token(Sha256(token), TokenEntry(username, label))
                /\ issued' = issued \cup {Issued(token, username, label)}
                /\ Finish(t, 200, "", Some(bs58_encode(token)))
                /\ UNCHANGED user_tree
        /\ UNCHANGED <<crate_tree, files, docs_queue, now, offline, worker, decoder, prefix,
                       loc, accepted>>

\* token.rs:41-47: the check of create_token, "Check if user already has a token
\* with this label", as one step of a call that overlaps others.
CreateTokenCheck(t) ==
    \E username \in Usernames, label \in Labels :
        /\ Start(t, [op |-> "create_token", name |-> "", vers |-> "", data |-> "",
                     username |-> username, label |-> label])
        /\ IF TokenEntry(username, label) \in get_user_tokens(username)
           THEN Finish(t, 200, "", None)
           ELSE Goto(t, "insert_token")
        /\ UNCHANGED <<crate_tree, files, docs_queue, now, offline, auth_vars, worker, decoder,
                       prefix, loc, accepted>>

\* token.rs:49-59: OsRng.fill_bytes, db.insert_token and the token returned.
CreateTokenInsert(t) ==
    /\ pc[t] = "insert_token" /\ req[t].op = "create_token"
    /\ \E token \in TokenBytes \ {i.bytes : i \in issued} :
          /\ insert_token(Sha256(token), TokenEntry(req[t].username, req[t].label))
          /\ issued' = issued \cup {Issued(token, req[t].username, req[t].label)}
          /\ Finish(t, 200, "", Some(bs58_encode(token)))
    /\ UNCHANGED <<crate_tree, files, docs_queue, now, offline, user_tree, worker, decoder,
                   prefix, req, loc, mode, nreq, accepted, conc, seen, last, call>>

\* The keys of the records of the user, whatever their label.
matching_tokens_user(username, label) ==
    {h \in DOMAIN token_tree :
        /\ IsSome(token_tree[h])
        /\ deserialize(Unwrap(token_tree[h])).username = username}

\* token.rs:88-98: the keys of the records equal to the reference.
matching_tokens(username, label) ==
    {h \in DOMAIN token_tree :
        /\ IsSome(token_tree[h])
        /\ deserialize(Unwrap(token_tree[h])) = TokenEntry(username, label)}

\* token::delete (token.rs:82-106), called by auth_tokens_delete.
DeleteToken(t) ==
    \E username \in Usernames, label \in Labels :
        /\ Start(t, [op |-> "delete", name |-> "", vers |-> "", data |-> "",
                     username |-> username, label |-> label])
        /\ token_tree' = [h \in DOMAIN token_tree |->
                            IF h \in matching_tokens(username, label) THEN None
                            ELSE token_tree[h]]
        /\ issued' = {IF i.username = username /\ i.label = label
                      THEN [i EXCEPT !.revoked = TRUE] ELSE i : i \in issued}
        /\ Finish(t, 200, "", <<>>)
        /\ UNCHANGED <<crate_tree, files, docs_queue, now, offline, user_tree, worker, decoder, prefix,
                       loc, accepted>>

----------------------------------------------------------------------------
(* docs.rs: the docs builder thread *)

\* docs.rs:29: work_queue.blocking_recv() returns the next job.
WorkerRecv ==
    /\ worker = "idle"
    /\ docs_queue # <<>>
    /\ worker' = "busy"
    /\ docs_queue' = Tail(docs_queue)
    /\ UNCHANGED <<crate_tree, files, now, offline, auth_vars, decoder, prefix, pc, req, loc, resp,
                   mode, nreq, accepted, conc, seen, last, call>>

\* docs.rs:32-69: the build went through; the thread loops.
WorkerBuilt ==
    /\ worker = "busy"
    /\ worker' = "idle"
    /\ UNCHANGED <<crate_tree, files, docs_queue, now, offline, auth_vars, decoder, prefix, pc, req,
                   loc, resp, mode, nreq, accepted, conc, seen, last, call>>

\* docs.rs:39, 45, 64, 67, 68: an unwrap() of a failed step panics.  The thread
\* ends and its receiver is dropped with the jobs still queued.
WorkerPanic ==
    /\ worker = "busy"
    /\ worker' = "dead"
    /\ docs_queue' = <<>>
    /\ UNCHANGED <<crate_tree, files, now, offline, auth_vars, decoder, prefix, pc, req, loc, resp,
                   mode, nreq, accepted, conc, seen, last, call>>

----------------------------------------------------------------------------
(* db.rs: reads of the crate tree, as calls of their own *)

\* Db::get_crate (db.rs:57-64) returns.
DbGetCrate(t) ==
    \E name \in Names :
        LET got == try_get_crate(name) IN
        /\ Start(t, [op |-> "get_crate", name |-> name, vers |-> "", data |-> ""])
        /\ IF got.ok THEN Finish(t, 0, "Ok", got.value)
           ELSE Finish(t, 0, "could not deserialise metadata in crate entry", <<>>)
        /\ UNCHANGED <<crate_tree, files, docs_queue, now, offline, auth_vars, worker, decoder, prefix,
                       loc, accepted>>

\* Db::iter_crates (db.rs:128-138), consumed by search_crates (api.rs:249-263).
DbIterCrates(t) ==
    /\ Start(t, [op |-> "iter_crates", name |-> "", vers |-> "", data |-> ""])
    /\ IF iter_crates.panic THEN Finish(t, 0, "panic", <<>>)
       ELSE Finish(t, 0, "Ok", <<iter_crates.items>>)
    /\ UNCHANGED <<crate_tree, files, docs_queue, now, offline, auth_vars, worker, decoder, prefix,
                   loc, accepted>>

----------------------------------------------------------------------------
(* The clock *)

\* Time passes, one TTL at a step: a mirror entry is as old as the TTL after one
\* step and older after two.
Tick ==
    /\ now + TTL <= MaxTicks * TTL
    /\ now' = now + TTL
    /\ UNCHANGED <<crate_tree, files, docs_queue, offline, auth_vars, worker, decoder, prefix, pc, req, loc, resp, mode, nreq, accepted, conc, seen, last, call>>

----------------------------------------------------------------------------
(* The states the registry starts from: the database and the data directory are
   persistent, so a start finds what earlier runs left. *)

\* A crate published locally at time 0, its file stored.
LocalStart(name) ==
    Entry(<<UploadedPackage(to_package(Metadata(name, "1.2.0"), Sha256Hex("tarball-a")),
                            Some(Metadata(name, "1.2.0")), Some(0))>>, 0, TRUE)

\* A crate mirrored from upstream at time 0.
MirrorStart(name) == MirrorEntry(<<UpstreamPackage(name, "1.10.0")>>, 0)

StartKinds == {"absent", "local", "mirror"}

NoLast == [req |-> NoReq, status |-> 0, seen |-> None]

StartStoresOf(names) ==
    /\ \E kind \in [names -> StartKinds] :
          /\ crate_tree = [n \in names |->
                             CASE kind[n] = "absent" -> None
                               [] kind[n] = "local"  -> Some(serialize(LocalStart(n)))
                               [] OTHER              -> Some(serialize(MirrorStart(n)))]
          /\ files = [k \in names \X VersionStrings |->
                        IF kind[k[1]] = "local" /\ k[2] = "1.2.0" THEN Some("tarball-a") ELSE None]
          /\ accepted = [n \in names |-> IF kind[n] = "local" THEN 1 ELSE 0]
    /\ docs_queue = <<>>
    /\ now = 0

StartStores == StartStoresOf(StockNames)

\* No request has been taken.
StartTasks ==
    /\ pc = [t \in Tasks |-> "idle"]
    /\ req = [t \in Tasks |-> NoReq]
    /\ loc = [t \in Tasks |-> NoLoc]
    /\ resp = [t \in Tasks |-> NoResp]
    /\ nreq = 0
    /\ conc = [t \in Tasks |-> {}]
    /\ seen = [t \in Tasks |-> None]
    /\ last = NoLast
    /\ call = [t \in Tasks |-> NoCall]

Start0 ==
    /\ StartStores
    /\ offline \in BOOLEAN
    /\ StartTasks
    /\ StockAuth
    /\ worker = "idle"
    /\ decoder = NoDecoder
    /\ prefix = NoPrefix

Init == Start0 /\ mode = "conc"

InitSeq == Start0 /\ mode = "seq"

Next ==
    \/ \E t \in Tasks : AddCrateGet(t)
    \/ \E t \in Tasks : AddCrateInsert(t)
    \/ \E t \in Tasks : AddCrateStoreFile(t)
    \/ \E t \in Tasks : AddCrateNotify(t)
    \/ \E t \in Tasks : YankGet(t)
    \/ \E t \in Tasks : YankInsert(t)
    \/ \E t \in Tasks : UnyankGet(t)
    \/ \E t \in Tasks : UnyankInsert(t)
    \/ \E t \in Tasks : MetaGet(t)
    \/ \E t \in Tasks : MetaRemove(t)
    \/ \E t \in Tasks : MetaFetch(t)
    \/ \E t \in Tasks : Reset(t)
    \/ Tick

\* Requests overlap.
Spec == Init /\ [][Next]_vars

\* Requests are served one at a time.
SpecSeq == InitSeq /\ [][Next]_vars

NextDb ==
    \/ \E t \in Tasks : ModifyGet(t)
    \/ \E t \in Tasks : ModifyCas(t)
    \/ \E t \in Tasks : Reset(t)
    \/ Tick

\* Callers of Db::modify_crate, their calls overlapping.
SpecDb == Init /\ [][NextDb]_vars

\* db.rs:88-96: a call of modify_crate, of the MaxContendedCalls made.
ContendedCall(t) ==
    /\ nreq < MaxContendedCalls
    /\ ModifyGet(t)

NextContend ==
    \/ \E t \in Tasks : ContendedCall(t)
    \/ \E t \in Tasks : ModifyCas(t)
    \/ \E t \in Tasks : Reset(t)
    \/ ToggleYank

\* Callers of Db::modify_crate while other clients keep writing the record.  A
\* call in flight is running code: its next round is taken if it stays possible.
SpecContend ==
    InitSeq /\ [][NextContend]_vars /\ \A t \in Tasks : WF_vars(ModifyCas(t))

\* The stock start over two names, the crate path of the second leading through
\* the directory of the first; requests overlap.
InitPath ==
    /\ StartStoresOf(PathNames)
    /\ offline = FALSE
    /\ StartTasks
    /\ StockAuth
    /\ worker = "idle"
    /\ decoder = NoDecoder
    /\ prefix = NoPrefix
    /\ mode = "conc"

NextPath ==
    \/ \E t \in Tasks : AddCrateGet(t)
    \/ \E t \in Tasks : AddCrateInsert(t)
    \/ \E t \in Tasks : AddCrateStoreFile(t)
    \/ \E t \in Tasks : AddCrateNotify(t)
    \/ \E t \in Tasks : YankGet(t)
    \/ \E t \in Tasks : YankInsert(t)
    \/ \E t \in Tasks : UnyankGet(t)
    \/ \E t \in Tasks : UnyankInsert(t)
    \/ \E t \in Tasks : MetaGet(t)
    \/ \E t \in Tasks : MetaRemove(t)
    \/ \E t \in Tasks : MetaFetch(t)
    \/ \E t \in Tasks : Reset(t)
    \/ Tick

\* Publishes, yanks, unyanks and metadata reads over two names, overlapping.
SpecPath == InitPath /\ [][NextPath]_vars

NextDl ==
    \/ \E t \in Tasks : AddCrateGet(t)
    \/ \E t \in Tasks : AddCrateInsert(t)
    \/ \E t \in Tasks : AddCrateStoreFile(t)
    \/ \E t \in Tasks : AddCrateNotify(t)
    \/ \E t \in Tasks : DlGet(t)
    \/ \E t \in Tasks : DlFetch(t)
    \/ \E t \in Tasks : DlStore(t)
    \/ \E t \in Tasks : Reset(t)

\* Publishes and crate file downloads, served one at a time.
SpecDl == InitSeq /\ [][NextDl]_vars

\* The decoder alone: every body up to MaxBodyLen bytes with every value of its
\* two length prefixes, on each target and in each build.
InitDecode ==
    /\ StartStores
    /\ offline = FALSE
    /\ StartTasks
    /\ StockAuth
    /\ worker = "idle"
    /\ mode = "seq"
    /\ \E len \in 0 .. MaxBodyLen, meta_length \in PrefixValues,
          data_length \in PrefixValues, bits \in UsizeBits, overflow_checks \in BOOLEAN :
         decoder = [NoDecoder EXCEPT !.len = len, !.meta_length = meta_length,
                                     !.data_length = data_length, !.bits = bits,
                                     !.overflow_checks = overflow_checks]
    /\ prefix = NoPrefix

NextDecode == DecodeBody

SpecDecode == InitDecode /\ [][NextDecode]_vars

\* crate_prefix alone: every name of up to MaxNameChars chars over the alphabet.
CrateNames ==
    UNION {[1 .. n -> Alphabet] : n \in 0 .. MaxNameChars}

InitPrefix ==
    /\ StartStores
    /\ offline = FALSE
    /\ StartTasks
    /\ StockAuth
    /\ worker = "idle"
    /\ mode = "seq"
    /\ decoder = NoDecoder
    /\ \E name \in CrateNames : prefix = [NoPrefix EXCEPT !.name = name]

NextPrefix == CratePrefix

SpecPrefix == InitPrefix /\ [][NextPrefix]_vars

\* The token and user stores as earlier runs may have left them: alice registered
\* with a token; bob registered or not; a second token that is alice's under the
\* same label (two overlapping create_token calls), or bob's.
InitAuth ==
    /\ StartStores
    /\ offline = FALSE
    /\ StartTasks
    /\ \E second \in {None, Some(TokenEntry("alice", "ci")), Some(TokenEntry("bob", "dev"))},
          bob \in BOOLEAN :
         /\ user_tree = [u \in Usernames |->
                           IF u = "alice" \/ bob THEN Some(serialize(User(u))) ELSE None]
         /\ token_tree = [h \in {Sha256(k) : k \in TokenBytes} |->
                            IF h = Sha256("k1") THEN Some(serialize(TokenEntry("alice", "ci")))
                            ELSE IF h = Sha256("k2") /\ IsSome(second)
                            THEN Some(serialize(Unwrap(second)))
                            ELSE None]
         /\ issued = {Issued("k1", "alice", "ci")}
                     \cup {Issued("k2", e.username, e.label) : e \in {Unwrap(s) : s \in {second} \ {None}}}
    /\ worker = "idle"
    /\ decoder = NoDecoder
    /\ prefix = NoPrefix
    /\ mode = "seq"

NextToken ==
    \/ \E t \in Tasks : CreateToken(t)
    \/ \E t \in Tasks : DeleteToken(t)
    \/ \E t \in Tasks : ApiAuthExtract(t)
    \/ \E t \in Tasks : Reset(t)

\* Tokens issued, revoked and checked, one request at a time.
SpecToken == InitAuth /\ [][NextToken]_vars

\* alice and bob registered, alice with a token; requests overlap.
InitIssue ==
    /\ StartStores
    /\ offline = FALSE
    /\ StartTasks
    /\ user_tree = [u \in Usernames |-> Some(serialize(User(u)))]
    /\ token_tree = [h \in {Sha256(k) : k \in TokenBytes} |->
                       IF h = Sha256("k1") THEN Some(serialize(TokenEntry("alice", "ci")))
                       ELSE None]
    /\ issued = {Issued("k1", "alice", "ci")}
    /\ worker = "idle"
    /\ decoder = NoDecoder
    /\ prefix = NoPrefix
    /\ mode = "conc"

NextIssue ==
    \/ \E t \in Tasks : CreateTokenCheck(t)
    \/ \E t \in Tasks : CreateTokenInsert(t)
    \/ \E t \in Tasks : Reset(t)

\* Calls of token::create_token that overlap.
SpecIssue == InitIssue /\ [][NextIssue]_vars

\* alice registered with a token; a token of bob, who has no user record.
InitApiAuth ==
    /\ StartStores
    /\ offline = FALSE
    /\ StartTasks
    /\ user_tree = [u \in Usernames |-> IF u = "alice" THEN Some(serialize(User(u))) ELSE None]
    /\ token_tree = [h \in {Sha256(k) : k \in TokenBytes} |->
                       IF h = Sha256("k1") THEN Some(serialize(TokenEntry("alice", "ci")))
                       ELSE IF h = Sha256("k2") THEN Some(serialize(TokenEntry("bob", "dev")))
                       ELSE None]
    /\ issued = {Issued("k1", "alice", "ci"), Issued("k2", "bob", "dev")}
    /\ worker = "idle"
    /\ decoder = NoDecoder
    /\ prefix = NoPrefix
    /\ mode = "seq"

NextAuth ==
    \/ \E t \in Tasks : ApiAuthReject(t)
    \/ \E t \in Tasks : AddCrateGet(t)
    \/ \E t \in Tasks : AddCrateInsert(t)
    \/ \E t \in Tasks : AddCrateStoreFile(t)
    \/ \E t \in Tasks : AddCrateNotify(t)
    \/ \E t \in Tasks : YankGet(t)
    \/ \E t \in Tasks : YankInsert(t)
    \/ \E t \in Tasks : UnyankGet(t)
    \/ \E t \in Tasks : UnyankInsert(t)
    \/ \E t \in Tasks : Reset(t)

\* Requests that need a token, with and without a good one, served one at a time.
SpecAuth == InitApiAuth /\ [][NextAuth]_vars

NextDocs ==
    \/ \E t \in Tasks : AddCrateGet(t)
    \/ \E t \in Tasks : AddCrateInsert(t)
    \/ \E t \in Tasks : AddCrateStoreFile(t)
    \/ \E t \in Tasks : AddCrateNotify(t)
    \/ \E t \in Tasks : Reset(t)
    \/ WorkerRecv
    \/ WorkerBuilt
    \/ WorkerPanic

\* Publishes served one at a time, with the docs builder thread at work.
SpecDocs == InitSeq /\ [][NextDocs]_vars

\* The crate tree as an earlier run may have left it, or holding bytes that are
\* not an Entry.
InitDb ==
    /\ \/ StartStores
       \/ /\ crate_tree = [n \in StockNames |-> Some(CorruptBytes)]
          /\ files = [k \in StockNames \X VersionStrings |-> None]
          /\ accepted = [n \in StockNames |-> 0]
          /\ docs_queue = <<>>
          /\ now = 0
    /\ offline = FALSE
    /\ StartTasks
    /\ StockAuth
    /\ worker = "idle"
    /\ decoder = NoDecoder
    /\ prefix = NoPrefix
    /\ mode = "seq"

NextDbCalls ==
    \/ \E t \in Tasks : DbGetCrate(t)
    \/ \E t \in Tasks : DbIterCrates(t)
    \/ \E t \in Tasks : ModifyGet(t)
    \/ \E t \in Tasks : ModifyCas(t)
    \/ \E t \in Tasks : Reset(t)

\* Calls of Db::get_crate, Db::iter_crates and Db::modify_crate, one at a time.
SpecDbCalls == InitDb /\ [][NextDbCalls]_vars

\* The stores as main.rs leaves them.
MainLocalStart(name) ==
    Entry(<<to_package(Metadata(name, "1.2.0"), Sha256Hex("tarball-a"))>>, 0, TRUE)

MainMirrorStart(name) == Entry(<<UpstreamPackage(name, "1.10.0")>>, 0, FALSE)

InitMain ==
    /\ \E kind \in [StockNames -> StartKinds] :
          /\ crate_tree = [n \in StockNames |->
                             CASE kind[n] = "absent" -> None
                               [] kind[n] = "local"  -> Some(serialize(MainLocalStart(n)))
                               [] OTHER              -> Some(serialize(MainMirrorStart(n)))]
          /\ files = [k \in StockNames \X VersionStrings |->
                        IF kind[k[1]] = "local" /\ k[2] = "1.2.0" THEN Some("tarball-a") ELSE None]
          /\ accepted = [n \in StockNames |-> IF kind[n] = "local" THEN 1 ELSE 0]
    /\ docs_queue = <<>>
    /\ now = 0
    /\ offline \in BOOLEAN
    /\ StartTasks
    /\ StockAuth
    /\ worker = "idle"
    /\ decoder = NoDecoder
    /\ prefix = NoPrefix
    /\ mode = "conc"

NextMain ==
    \/ \E t \in Tasks : MainAddCrateGet(t)
    \/ \E t \in Tasks : MainAddCrateRemove(t)
    \/ \E t \in Tasks : MainAddCrateInsert(t)
    \/ \E t \in Tasks : MainAddCrateStoreFile(t)
    \/ \E t \in Tasks : MainMetaGet(t)
    \/ \E t \in Tasks : MainMetaRemove(t)
    \/ \E t \in Tasks : MainMetaFetch(t)
    \/ \E t \in Tasks : Reset(t)
    \/ Tick

\* The binary of main.rs, requests overlapping.
SpecMain == InitMain /\ [][NextMain]_vars

----------------------------------------------------------------------------
(* Vocabulary of the properties *)

IsLocalRecord(o) == IsSome(o) /\ deserialize(Unwrap(o)).is_local

IsMirrorRecord(o) == IsSome(o) /\ ~deserialize(Unwrap(o)).is_local

StoredVersions(name) ==
    IF IsSome(crate_tree[name]) THEN deserialize(Unwrap(crate_tree[name])).versions ELSE <<>>

HasVersion(name, vers) ==
    \E i \in 1..Len(StoredVersions(name)) : StoredVersions(name)[i].pkg.vers = vers

\* The stored version `vers` of `name` carries the yanked flag `flag`.
HasYanked(name, vers, flag) ==
    \E i \in 1..Len(StoredVersions(name)) :
        /\ StoredVersions(name)[i].pkg.vers = vers
        /\ StoredVersions(name)[i].pkg.yanked = flag

\* Task t has answered 200 to a request of kind op.
Answered200(t, op) == pc[t] = "done" /\ req[t].op = op /\ resp[t].status = 200

\* The stored record shows what the request t answered 200 to asked for.
Reflected(t) ==
    CASE req[t].op = "add_crate"    -> HasVersion(req[t].name, req[t].vers)
      [] req[t].op = "yank_crate"   -> HasYanked(req[t].name, req[t].vers, TRUE)
      [] req[t].op = "unyank_crate" -> HasYanked(req[t].name, req[t].vers, FALSE)
      [] OTHER -> TRUE

\* This step is a step of a request of kind op served by t.
StepOf(t, op) == pc'[t] # pc[t] /\ req'[t].op = op

----------------------------------------------------------------------------
(* Properties *)

\* C1: no lost publish.  When two publish requests for distinct versions of the
\* same crate, which was stored as a local crate when each of them read it, have
\* both been answered 200, the stored entry holds both versions.
C1_NoLostPublish ==
    \A t, u \in Tasks :
        ( /\ t # u
          /\ Answered200(t, "add_crate") /\ Answered200(u, "add_crate")
          /\ req[t].name = req[u].name /\ req[t].vers # req[u].vers
          /\ IsSome(seen[t]) /\ IsSome(seen[u]) )
        => HasVersion(req[t].name, req[t].vers) /\ HasVersion(req[u].name, req[u].vers)

\* C2: a yank or unyank answered 200 whose request overlapped another accepted
\* mutation of the same crate (a publish, or a yank or unyank of another version)
\* is not lost: the stored entry shows the flag change and the other update.
C2_NoLostYank ==
    \A t, u \in Tasks :
        ( /\ t # u /\ u \in conc[t]
          /\ Answered200(t, "yank_crate") \/ Answered200(t, "unyank_crate")
          /\ \/ Answered200(u, "add_crate")
             \/ /\ Answered200(u, "yank_crate") \/ Answered200(u, "unyank_crate")
                /\ req[u].vers # req[t].vers
          /\ req[t].name = req[u].name )
        => Reflected(t) /\ Reflected(u)

\* C3: once the entry stored for a name is local, no step of a metadata read for
\* that name changes what is stored for it.
C3_MirrorNeverTouchesLocal ==
    [][ \A t \in Tasks :
          (StepOf(t, "crate_metadata") /\ IsLocalRecord(crate_tree[req'[t].name]))
          => crate_tree'[req'[t].name] = crate_tree[req'[t].name] ]_vars

\* C4: an entry is removed from the crate tree only when it is a mirror entry: no
\* step takes away the record of a name whose stored entry is local.  (A reader
\* of the name would find nothing stored, and take the crate for absent.)
C4_LocalNeverRemoved ==
    [][ \A n \in Names : IsLocalRecord(crate_tree[n]) => IsSome(crate_tree'[n]) ]_vars

\* The modify_crate call of t has returned.
Returned(t) == pc[t] = "done" /\ req[t].op = "modify_crate"

\* C5: when the transform of a modify_crate call has returned an error, the call
\* returns an error and has stored nothing: it has not replaced the bytes it found.
C5_TransformErrorKeepsStore ==
    \A t \in Tasks :
        (Returned(t) /\ call[t].erred)
        => resp[t].detail # "Ok" /\ ~call[t].committed

\* C6: the result of a modify_crate call whose closure ran agrees with what the
\* call committed: Err only if it stored nothing new, Ok only if it stored the
\* closure's change.
C6_ResultAgreesWithCommit ==
    \A t \in Tasks :
        (Returned(t) /\ call[t].invoked)
        => (resp[t].detail = "Ok" <=> call[t].committed)

\* The number of stored records of `name` whose version string is `vers`.
CountVersion(name, vers) ==
    Cardinality({i \in 1..Len(StoredVersions(name)) : StoredVersions(name)[i].pkg.vers = vers})

\* The request served just before the current one was a request of kind op for
\* (name, vers), answered 200.
LastAnswered200(op, name, vers) ==
    /\ last.req.op = op /\ last.status = 200
    /\ last.req.name = name /\ last.req.vers = vers

\* C7: publishing the same (name, version) twice in sequence: the second publish
\* is answered 400 "attempted to upload existing version", the stored entry and
\* the stored crate file are those of the first publish, and the entry holds one
\* record of the version.
C7_SecondPublishConflict ==
    \A t \in Tasks :
        ( /\ pc[t] = "done" /\ req[t].op = "add_crate"
          /\ LastAnswered200("add_crate", req[t].name, req[t].vers) )
        => /\ resp[t].status = 400
           /\ resp[t].detail = "attempted to upload existing version"
           /\ get_crate(req[t].name) = seen[t]
           /\ files[<<req[t].name, req[t].vers>>] = Some(last.req.data)
           /\ CountVersion(req[t].name, req[t].vers) = 1

\* Ascending by parsed version, strictly: each stored version is below the next.
StrictlyAscending(versions) ==
    \A i \in 1..(Len(versions) - 1) :
        /\ IsSome(Version_parse(versions[i].pkg.vers))
        /\ IsSome(Version_parse(versions[i + 1].pkg.vers))
        /\ VersionLess(Unwrap(Version_parse(versions[i].pkg.vers)),
                       Unwrap(Version_parse(versions[i + 1].pkg.vers)))

C9_MirrorRejectsPublish ==
    [][ \A t \in Tasks :
          (StepOf(t, "add_crate") /\ pc[t] = "idle" /\ IsMirrorRecord(crate_tree[req'[t].name]))
          => /\ pc'[t] = "done"
             /\ resp'[t].status = 400
             /\ resp'[t].detail =
                  "attempted to upload crate with the same name as a cached upstream crate"
             /\ UNCHANGED <<crate_tree, files, docs_queue>> ]_vars

\* C9 witness: a publish whose version string is no semver has been rejected by a
\* mirror entry, right after one whose version is new to the entry.
C9_Witness ==
    \E t \in Tasks :
        /\ pc[t] = "done" /\ req[t].op = "add_crate" /\ req[t].vers = "1.x"
        /\ IsSome(seen[t]) /\ ~Unwrap(seen[t]).is_local /\ resp[t].status = 400
        /\ last.req.op = "add_crate" /\ last.req.vers = "2.0.0"
        /\ IsSome(last.seen) /\ ~Unwrap(last.seen).is_local /\ last.status = 400

\* C10: a yank of (name, v) answered 200 and then an unyank of (name, v) answered
\* 200 leave the entry as the yank found it: v not yanked, the other versions,
\* their order, is_local and time_of_last_update untouched.
C10_YankUnyankRestores ==
    \A t \in Tasks :
        ( /\ Answered200(t, "unyank_crate")
          /\ LastAnswered200("yank_crate", req[t].name, req[t].vers) )
        => /\ get_crate(req[t].name) = last.seen
           /\ HasYanked(req[t].name, req[t].vers, FALSE)

\* C10 witness: the yank and the unyank have been answered 200 on an entry of
\* two versions.
C10_Witness ==
    \E t \in Tasks :
        /\ Answered200(t, "unyank_crate")
        /\ LastAnswered200("yank_crate", req[t].name, req[t].vers)
        /\ Len(StoredVersions(req[t].name)) = 2

\* The entry holds a record whose version string parses to the version v.
HasParsedVersion(entry, v) ==
    \E i \in 1..Len(entry.versions) : Version_parse(entry.versions[i].pkg.vers) = Some(v)

\* The step ends the request of t with a 400 of the given message and leaves the
\* crate tree as it is.
RejectedBy(t, detail) ==
    /\ pc'[t] = "done"
    /\ resp'[t].status = 400 /\ resp'[t].detail = detail
    /\ UNCHANGED crate_tree

\* C11: yank and unyank check in this order, and write nothing when a check
\* fails: a version string that does not parse is answered "invalid crate
\* version supplied" whatever is stored; then a name with no entry is answered
\* "crate does not exist in index"; then an entry without the version is answered
\* "crate does not have the specified version published".
C11_YankValidation ==
    [][ \A t \in Tasks :
          (pc[t] = "idle" /\ (StepOf(t, "yank_crate") \/ StepOf(t, "unyank_crate")))
          => LET got == get_crate(req'[t].name)
                 yank_version == Version_parse(req'[t].vers)
             IN /\ yank_version = None
                   => RejectedBy(t, "invalid crate version supplied")
                /\ (yank_version # None /\ got = None)
                   => RejectedBy(t, "crate does not exist in index")
                /\ ( /\ yank_version # None /\ got # None
                     /\ ~HasParsedVersion(Unwrap(got), Unwrap(yank_version)) )
                   => RejectedBy(t, "crate does not have the specified version published")
      ]_vars

\* The entry holds a record of the version the string vers parses to, with the
\* yanked flag as given.
HasFlag(entry, vers, flag) ==
    /\ IsSome(Version_parse(vers))
    /\ \E i \in 1..Len(entry.versions) :
          /\ Version_parse(entry.versions[i].pkg.vers) = Version_parse(vers)
          /\ entry.versions[i].pkg.yanked = flag

\* The request of t is over, it was of kind op.
Done(t, op) == pc[t] = "done" /\ req[t].op = op

\* C12: a toggle that would change nothing is rejected and writes nothing: a yank
\* of a version already yanked is answered 400 "version has already been yanked",
\* an unyank of a version not yanked is answered 400 "version has not been
\* yanked", and the entry is as the request found it.  Hence the metadata read
\* after the first publish of a crate shows one line with yanked = false, the read
\* after a yank of a local crate's version shows it yanked, and a second yank fails.
C12_NoOpToggleRejected ==
    \A t \in Tasks :
        /\ (Done(t, "yank_crate") /\ IsSome(seen[t]) /\ HasFlag(Unwrap(seen[t]), req[t].vers, TRUE))
           => /\ resp[t].status = 400 /\ resp[t].detail = "version has already been yanked"
              /\ get_crate(req[t].name) = seen[t]
        /\ (Done(t, "unyank_crate") /\ IsSome(seen[t]) /\ HasFlag(Unwrap(seen[t]), req[t].vers, FALSE))
           => /\ resp[t].status = 400 /\ resp[t].detail = "version has not been yanked"
              /\ get_crate(req[t].name) = seen[t]
        /\ ( /\ Done(t, "crate_metadata")
             /\ LastAnswered200("add_crate", req[t].name, last.req.vers) /\ last.seen = None )
           => /\ resp[t].status = 200 /\ Len(resp[t].body) = 1
              /\ resp[t].body[1].vers = last.req.vers /\ ~resp[t].body[1].yanked
        /\ ( /\ Done(t, "crate_metadata")
             /\ LastAnswered200("yank_crate", req[t].name, last.req.vers)
             /\ IsSome(last.seen) /\ Unwrap(last.seen).is_local )
           => /\ resp[t].status = 200
              /\ \E i \in 1..Len(resp[t].body) :
                    /\ Version_parse(resp[t].body[i].vers) = Version_parse(last.req.vers)
                    /\ resp[t].body[i].yanked
        /\ (Done(t, "yank_crate") /\ LastAnswered200("yank_crate", req[t].name, req[t].vers))
           => resp[t].status = 400 /\ resp[t].detail = "version has already been yanked"

\* C12 witness: a version has been yanked and the yank sent again has been
\* answered 400.
C12_Witness ==
    \E t \in Tasks :
        /\ Done(t, "yank_crate") /\ LastAnswered200("yank_crate", req[t].name, req[t].vers)
        /\ resp[t].status = 400 /\ resp[t].detail = "version has already been yanked"
        /\ HasFlag(Unwrap(get_crate(req[t].name)), req[t].vers, TRUE)

\* Age of an entry at the present time.
Age(entry) == now - entry.time_of_last_update

\* C13: a metadata read that finds a local entry, of any age, or a mirror entry
\* younger than 30 minutes is answered from the crate tree: 200 with the stored
\* lines, no request to upstream, the crate tree as it was.
C13_ServedFromStore ==
    \A t \in Tasks :
        ( /\ Done(t, "crate_metadata") /\ IsSome(seen[t])
          /\ (Unwrap(seen[t]).is_local \/ Age(Unwrap(seen[t])) < TTL) )
        => /\ resp[t].status = 200
           /\ resp[t].body = MetadataLines(Unwrap(seen[t]))
           /\ call[t].fetches = 0
           /\ get_crate(req[t].name) = seen[t]

\* C13 witness: online, a local entry an hour old has been read from the crate
\* tree.
C13_Witness ==
    \E t \in Tasks :
        /\ Done(t, "crate_metadata") /\ ~offline
        /\ IsSome(seen[t]) /\ Unwrap(seen[t]).is_local /\ Age(Unwrap(seen[t])) = 2 * TTL
        /\ resp[t].status = 200 /\ call[t].fetches = 0

\* The step is the read of an online metadata request of t that finds a mirror
\* entry stored.
ReadsMirrorOnline(t) ==
    /\ StepOf(t, "crate_metadata") /\ pc[t] = "idle" /\ ~offline
    /\ IsMirrorRecord(crate_tree[req'[t].name])

\* The read step of t sends the request on to evict the entry and ask upstream;
\* otherwise it answers from the crate tree without a request to upstream.
Refetched(t) == pc'[t] = "remove"
ServedNow(t) == pc'[t] = "done" /\ resp'[t].status = 200 /\ call'[t].fetches = 0

\* C17: an online metadata read treats a mirror entry as stale exactly when it is
\* older than 30 minutes: at an age of exactly 30 minutes, or less, the entry is
\* served from the crate tree, above 30 minutes it is evicted and fetched again.
C17_StaleAfterTTL ==
    [][ \A t \in Tasks :
          ReadsMirrorOnline(t)
          => IF Age(Unwrap(get_crate(req'[t].name))) > TTL
             THEN Refetched(t) ELSE ServedNow(t) ]_vars

\* C17 as stated: stale exactly when the age is 30 minutes or more.
C17_StaleAtTTL ==
    [][ \A t \in Tasks :
          ReadsMirrorOnline(t)
          => IF Age(Unwrap(get_crate(req'[t].name))) >= TTL
             THEN Refetched(t) ELSE ServedNow(t) ]_vars

\* C17 witness: online, a mirror entry exactly 30 minutes old has been served from
\* the crate tree.
C17_Witness ==
    \E t \in Tasks :
        /\ Done(t, "crate_metadata") /\ ~offline
        /\ IsSome(seen[t]) /\ ~Unwrap(seen[t]).is_local /\ Age(Unwrap(seen[t])) = TTL
        /\ resp[t].status = 200 /\ call[t].fetches = 0

\* The step is the read of an online metadata request of t, and what it finds
\* stored is nothing, or a mirror entry that `stale` holds of.
ReadsToFetch(t, stale(_)) ==
    /\ StepOf(t, "crate_metadata") /\ pc[t] = "idle" /\ ~offline
    /\ LET got == get_crate(req'[t].name)
       IN got = None \/ (~Unwrap(got).is_local /\ stale(Unwrap(got)))

\* The step is the read of a metadata request of t that finds a mirror entry
\* stored that `fresh` holds of.
ReadsFresh(t, fresh(_)) ==
    /\ StepOf(t, "crate_metadata") /\ pc[t] = "idle"
    /\ LET got == get_crate(req'[t].name)
       IN got # None /\ ~Unwrap(got).is_local /\ fresh(Unwrap(got))

\* The metadata request of t, which went on to upstream, is answered in this step:
\* it has asked upstream once, and on a 200 the name is stored as a mirror entry
\* of the present time.
AnsweredAfterOneFetch(t) ==
    ( /\ req[t].op = "crate_metadata" /\ pc[t] \in {"remove", "fetch"}
      /\ pc'[t] = "done" )
    => /\ pc[t] = "fetch" /\ call'[t].fetches = 1
       /\ resp'[t].status = 200
          => LET stored == crate_tree'[req[t].name]
             IN /\ IsSome(stored)
                /\ ~deserialize(Unwrap(stored)).is_local
                /\ deserialize(Unwrap(stored)).time_of_last_update = now

OlderThanTTL(entry) == Age(entry) > TTL
WithinTTL(entry) == Age(entry) <= TTL
AtLeastTTL(entry) == Age(entry) >= TTL
BelowTTL(entry) == Age(entry) < TTL

\* C14: an online metadata read of a name with no entry, or with a mirror entry
\* older than 30 minutes, asks upstream exactly once, and when upstream answers
\* with metadata the name is stored with is_local = false and
\* time_of_last_update = now; a read that finds the mirror entry no older than 30
\* minutes asks upstream not at all.
C14_FetchOnceThenCached ==
    [][ \A t \in Tasks :
          /\ ReadsToFetch(t, OlderThanTTL)
             => pc'[t] \in {"remove", "fetch"} /\ call'[t].fetches = 0
          /\ AnsweredAfterOneFetch(t)
          /\ ReadsFresh(t, WithinTTL) => ServedNow(t) ]_vars

\* C14 as stated, a mirror entry being stale from the age of 30 minutes on.
C14_FetchOnceStaleAtTTL ==
    [][ \A t \in Tasks :
          /\ ReadsToFetch(t, AtLeastTTL)
             => pc'[t] \in {"remove", "fetch"} /\ call'[t].fetches = 0
          /\ AnsweredAfterOneFetch(t)
          /\ ReadsFresh(t, BelowTTL) => ServedNow(t) ]_vars

\* C14 witness: online, a name with no entry has been read and fetched from
\* upstream, and the next read of it, 30 minutes later, has been answered from
\* the mirror entry with no request to upstream.
C14_Witness ==
    \E t \in Tasks :
        /\ Done(t, "crate_metadata") /\ ~offline
        /\ last.req.op = "crate_metadata" /\ last.req.name = req[t].name
        /\ last.status = 200 /\ last.seen = None
        /\ IsSome(seen[t]) /\ ~Unwrap(seen[t]).is_local /\ Age(Unwrap(seen[t])) = TTL
        /\ resp[t].status = 200 /\ call[t].fetches = 0

\* C15: offline, a metadata read sends nothing to upstream and leaves the crate
\* tree as it is: an entry, a mirror entry older than 30 minutes included, is
\* answered as it is stored, and a name with no entry is answered 404.
C15_OfflineReadOnly ==
    \A t \in Tasks :
        (Done(t, "crate_metadata") /\ offline)
        => /\ call[t].fetches = 0
           /\ get_crate(req[t].name) = seen[t]
           /\ IF IsSome(seen[t])
              THEN resp[t].status = 200 /\ resp[t].body = MetadataLines(Unwrap(seen[t]))
              ELSE resp[t].status = 404

\* C15 witness: offline, a mirror entry an hour old has been served and is still
\* stored.
C15_Witness ==
    \E t \in Tasks :
        /\ Done(t, "crate_metadata") /\ offline
        /\ IsSome(seen[t]) /\ ~Unwrap(seen[t]).is_local /\ Age(Unwrap(seen[t])) = 2 * TTL
        /\ resp[t].status = 200 /\ get_crate(req[t].name) = seen[t]

\* C16: a metadata read that has asked upstream and got not-found (answered 404)
\* or a failure (answered 500) leaves the crate tree as the read found it; a stale
\* mirror entry that was stored before the read is still stored.
C16_FailedFetchKeepsStore ==
    \A t \in Tasks :
        ( /\ Done(t, "crate_metadata") /\ call[t].fetches = 1
          /\ resp[t].status \in {404, 500} )
        => get_crate(req[t].name) = seen[t]

\* The crate file stored for the request of t.
BlobOf(t) == files[<<req[t].name, req[t].vers>>]

\* C18: a crate file download whose file is stored returns the stored bytes and
\* asks upstream nothing; with no file stored, offline it is answered 404 and
\* nothing is written; online it asks upstream once, and then the bytes upstream
\* sent are stored under (name, version) and returned, or on upstream's
\* not-found the answer is 404 and nothing is written.
C18_BlobRead ==
    \A t \in Tasks :
        Done(t, "crate_download")
        => IF IsSome(seen[t])
           THEN /\ resp[t].status = 200 /\ resp[t].body = seen[t]
                /\ call[t].fetches = 0 /\ BlobOf(t) = seen[t]
           ELSE IF offline
           THEN resp[t].status = 404 /\ call[t].fetches = 0 /\ BlobOf(t) = None
           ELSE /\ call[t].fetches = 1
                /\ loc[t].answer = "notfound" => (resp[t].status = 404 /\ BlobOf(t) = None)
                /\ loc[t].answer = "err" => (resp[t].status = 500 /\ BlobOf(t) = None)
                /\ loc[t].answer = "ok"
                   => \/ /\ resp[t].status = 200 /\ resp[t].body = loc[t].bytes
                         /\ BlobOf(t) = loc[t].bytes
                      \/ resp[t].status = 500 /\ BlobOf(t) = None

\* C18 witness: a crate file has been fetched from upstream and stored, and the
\* next download of it has been answered from the stored file.
C18_Witness ==
    \E t \in Tasks :
        /\ Done(t, "crate_download") /\ ~offline
        /\ last.req.op = "crate_download" /\ last.status = 200 /\ last.seen = None
        /\ last.req.name = req[t].name /\ last.req.vers = req[t].vers
        /\ seen[t] = Some(UpstreamBlob) /\ resp[t].status = 200
        /\ resp[t].body = Some(UpstreamBlob) /\ call[t].fetches = 0

\* C19: the bytes stored under a key (name, version) of the crate files are never
\* changed by a later step, whatever the request.
C19_BlobImmutable ==
    [][ \A k \in DOMAIN files : IsSome(files[k]) => files'[k] = files[k] ]_vars

\* The entry stored for the name is a local one and has a record of the version
\* string.
LocalHasVersion(name, vers) == IsLocalRecord(crate_tree[name]) /\ HasVersion(name, vers)

\* C20: when a local crate has a version whose crate file was not written, a
\* download of that version is not answered with bytes and stores no bytes for it
\* (the claim's NotFound, an upstream failure apart).
C20_MissingBlobNotFound ==
    \A t \in Tasks :
        ( /\ Done(t, "crate_download") /\ seen[t] = None
          /\ LocalHasVersion(req[t].name, req[t].vers) )
        => resp[t].status # 200 /\ BlobOf(t) = None

\* The publish body is too short for its two length prefixes, in plain integers.
BodyTooShort ==
    \/ decoder.len < 4
    \/ decoder.len < 4 + decoder.meta_length + 4
    \/ decoder.len < 4 + decoder.meta_length + 4 + decoder.data_length

\* C21: for every body the decoder either returns "body too short", exactly when
\* len < 4, or len < 4 + metadata_len + 4, or len < 4 + metadata_len + 4 + blob_len,
\* or it slices metadata = body[4, 4 + metadata_len) and
\* blob = body[4 + metadata_len + 4, 4 + metadata_len + 4 + blob_len); it never
\* ends any other way.
C21_DecoderTotal ==
    decoder.result # "none" =>
        IF BodyTooShort THEN decoder.result = "too_short"
        ELSE /\ decoder.result = "ok"
             /\ decoder.metadata = <<4, 4 + decoder.meta_length>>
             /\ decoder.data = <<4 + decoder.meta_length + 4,
                                 4 + decoder.meta_length + 4 + decoder.data_length>>

\* C22: a publish whose version string does not parse as semver is answered 400
\* and stores nothing, when an entry of the name exists and when the publish would
\* create the first entry of the crate.
C22_InvalidVersionRejected ==
    \A t \in Tasks :
        (req[t].op = "add_crate" /\ Version_parse(req[t].vers) = None)
        => /\ pc[t] = "done"
           /\ resp[t].status = 400
           /\ get_crate(req[t].name) = seen[t]
           /\ files[<<req[t].name, req[t].vers>>] = None

\* A record equal to the entry is stored in the token tree.
TokenStored(entry) ==
    \E h \in DOMAIN token_tree : token_tree[h] = Some(serialize(entry))

\* The bytes have not been handed out as a token before.
Fresh(bytes) == bytes \notin {i.bytes : i \in issued}

\* C23: create_token(username, label), when a TokenEntry of that username and
\* label is stored, returns None and leaves the token tree as it is; otherwise it
\* stores exactly one new record, TokenEntry{username, label} under the SHA-256
\* digest of fresh random bytes, and returns the base58 encoding of those bytes.
C23_IssueOncePerLabel ==
    [][ \A t \in Tasks :
          (pc[t] = "idle" /\ StepOf(t, "create_token"))
          => LET entry == TokenEntry(req'[t].username, req'[t].label) IN
             /\ pc'[t] = "done" /\ resp'[t].status = 200
             /\ IF TokenStored(entry)
                THEN resp'[t].body = None /\ UNCHANGED token_tree
                ELSE \E bytes \in TokenBytes :
                       /\ Fresh(bytes)
                       /\ token_tree[Sha256(bytes)] = None
                       /\ token_tree' = [token_tree EXCEPT
                                           ![Sha256(bytes)] = Some(serialize(entry))]
                       /\ resp'[t].body = Some(bs58_encode(bytes))
      ]_vars

\* A token was issued, and a later request for the same username and label was
\* answered with no token.
C23_Witness ==
    /\ Done(SeqTask, "create_token")
    /\ resp[SeqTask].body = None
    /\ \E i \in issued :
         /\ i.bytes \notin {"k1", "k2"}
         /\ i.username = req[SeqTask].username /\ i.label = req[SeqTask].label
         /\ ~i.revoked

\* The extractor has answered for the header of t, which held the string s.
Verified(t, s) ==
    /\ Done(t, "from_request_parts")
    /\ req[t].header.token = Some(s)

\* C24: the extractor resolves every token string create_token returned, that has
\* not been revoked and whose owner has a user record, to exactly the username and
\* label it was issued for; a string that differs from every issued token is
\* refused with 403.
C24_VerifyResolvesIssued ==
    \A t \in Tasks, s \in TokenStrings :
        Verified(t, s)
        => /\ \A i \in issued :
                (s = bs58_encode(i.bytes) /\ ~i.revoked /\ IsSome(user_tree[i.username]))
                => /\ resp[t].status = 200
                   /\ resp[t].body = <<TokenEntry(i.username, i.label), User(i.username)>>
           /\ (\A i \in issued : s # bs58_encode(i.bytes)) => resp[t].status = 403

\* A token issued by a create_token request has been resolved to its owner.
C24_Witness ==
    \E i \in issued :
        /\ i.bytes \notin {"k1", "k2"}
        /\ Verified(SeqTask, bs58_encode(i.bytes))
        /\ resp[SeqTask].status = 200
        /\ resp[SeqTask].body[1] = TokenEntry(i.username, i.label)

\* The string is not base58.
NotBase58(s) == bs58_decode(s) = None

\* No token record is stored under the digest of the bytes the string decodes to.
NoTokenRecord(s) ==
    bs58_decode(s) # None /\ token_tree[Sha256(Unwrap(bs58_decode(s)))] = None

\* A token record is stored for the string, and its owner has no user record.
Orphaned(s) ==
    /\ bs58_decode(s) # None
    /\ IsSome(token_tree[Sha256(Unwrap(bs58_decode(s)))])
    /\ user_tree[deserialize(Unwrap(token_tree[Sha256(Unwrap(bs58_decode(s)))])).username] = None

\* C25: the extractor answers 403, never 500 and never a success, when the token
\* string is not valid base58, when no token record is stored under the digest of
\* the decoded bytes, and when the record's owner has no user record.
C25_VerifyFailsUnauthenticated ==
    \A t \in Tasks, s \in TokenStrings :
        (Verified(t, s) /\ (NotBase58(s) \/ NoTokenRecord(s) \/ Orphaned(s)))
        => /\ resp[t].status = 403
           /\ resp[t].detail = "invalid authorization token"
           /\ resp[t].body = <<>>

\* The token of a user without a user record has been refused.
C25_Witness ==
    \E s \in TokenStrings :
        Verified(SeqTask, s) /\ Orphaned(s) /\ resp[SeqTask].status = 403

\* C26: delete(username, label) removes every token record whose username and
\* label equal the arguments and no other record.  Afterwards the extractor
\* refuses a revoked token and still resolves the tokens of other users and other
\* labels, and create_token(username, label) issues a token again.
C26_RevokeExactlyMatching ==
    [][ \A t \in Tasks :
          /\ (pc[t] = "idle" /\ StepOf(t, "delete"))
             => /\ pc'[t] = "done" /\ resp'[t].status = 200
                /\ token_tree' =
                     [h \in DOMAIN token_tree |->
                        IF token_tree[h] = Some(serialize(TokenEntry(req'[t].username,
                                                                     req'[t].label)))
                        THEN None ELSE token_tree[h]]
          /\ (pc[t] = "idle" /\ StepOf(t, "from_request_parts"))
             => \A i \in issued :
                  req'[t].header.token = Some(bs58_encode(i.bytes))
                  => IF i.revoked THEN resp'[t].status = 403
                     ELSE IsSome(user_tree[i.username])
                          => /\ resp'[t].status = 200
                             /\ resp'[t].body[1] = TokenEntry(i.username, i.label)
          /\ ( /\ pc[t] = "idle" /\ StepOf(t, "create_token")
               /\ \A i \in issued :
                    (i.username = req'[t].username /\ i.label = req'[t].label) => i.revoked )
             => resp'[t].body # None
      ]_vars

\* A revoked token has been refused while a token of another user or label is
\* still stored.
C26_Witness ==
    \E i, j \in issued :
        /\ i.revoked /\ ~j.revoked
        /\ Verified(SeqTask, bs58_encode(i.bytes))
        /\ resp[SeqTask].status = 403
        /\ token_tree[Sha256(j.bytes)] = Some(serialize(TokenEntry(j.username, j.label)))

\* The header holds a token that was issued, has not been revoked, and whose owner
\* has a user record.
GoodHeader(header) ==
    /\ header.kind = "str"
    /\ \E i \in issued :
         /\ header.token = Some(bs58_encode(i.bytes))
         /\ ~i.revoked
         /\ IsSome(user_tree[i.username])

\* C27: a publish, yank or unyank request whose token is missing, is not a valid
\* string, is unknown, or is owned by a user without a user record is answered 403
\* in the step that takes it, and the crate tree, the crate files and the docs
\* queue are as they were.
C27_UnauthenticatedTouchesNothing ==
    [][ \A t \in Tasks :
          ( /\ pc[t] = "idle" /\ pc'[t] # "idle"
            /\ req'[t].op \in AuthenticatedOps
            /\ ~GoodHeader(req'[t].header) )
          => /\ pc'[t] = "done"
             /\ resp'[t].status = 403
             /\ UNCHANGED <<crate_tree, files, docs_queue>>
      ]_vars

\* A publish that would have been accepted with a good token has been refused
\* for the token of a user without a user record.
C27_Witness ==
    /\ Done(SeqTask, "add_crate")
    /\ req[SeqTask].header.kind = "str"
    /\ Orphaned(Unwrap(req[SeqTask].header.token))
    /\ resp[SeqTask].status = 403
    /\ ~HasVersion(req[SeqTask].name, req[SeqTask].vers)
    /\ Version_parse(req[SeqTask].vers) # None
    /\ IsLocalRecord(crate_tree[req[SeqTask].name])

\* The publish of t has stored its version in the entry and its crate file.
PublishStored(t) ==
    /\ Done(t, "add_crate")
    /\ ~( /\ IsSome(seen[t])
          /\ \E i \in 1..Len(Unwrap(seen[t]).versions) :
                Unwrap(seen[t]).versions[i].pkg.vers = req[t].vers )
    /\ HasVersion(req[t].name, req[t].vers)
    /\ files[<<req[t].name, req[t].vers>>] = Some(req[t].data)

\* C28: a publish whose entry and crate file were stored is answered 200 whether
\* the docs builder is idle, busy, has finished or has died on an earlier build.
C28_PublishIndependentOfWorker ==
    \A t \in Tasks : PublishStored(t) => resp[t].status = 200

\* The lines of a response as versions of an entry.
AsVersions(lines) == [i \in 1..Len(lines) |-> [pkg |-> lines[i]]]

\* C29: a metadata read answered 200 returns one record per stored version of the
\* crate, in ascending semver order, whether the entry is local, a mirror entry
\* served from the crate tree, or the entry the read has just fetched.
C29_ReadSortedOnePerVersion ==
    \A t \in Tasks :
        (Done(t, "crate_metadata") /\ resp[t].status = 200)
        => /\ IsSome(get_crate(req[t].name))
           /\ resp[t].body = MetadataLines(Unwrap(get_crate(req[t].name)))
           /\ StrictlyAscending(AsVersions(resp[t].body))

\* The call of t has returned or ended, and the record it touches is corrupt.
TouchedCorrupt(t) ==
    /\ pc[t] = "done"
    /\ \/ /\ req[t].op \in {"get_crate", "modify_crate"}
          /\ IsSome(crate_tree[req[t].name])
          /\ ~Decodable(Unwrap(crate_tree[req[t].name]))
       \/ /\ req[t].op = "iter_crates"
          /\ \E n \in Names : IsSome(crate_tree[n]) /\ ~Decodable(Unwrap(crate_tree[n]))

\* C30: a stored record that does not deserialize makes the call that touches it
\* return an error value: get_crate, modify_crate and the iteration over the
\* entries return Err, and none of them panics.
C30_CorruptRecordIsError ==
    \A t \in Tasks :
        TouchedCorrupt(t) => resp[t].detail \notin {"Ok", "panic"}

\* The three sums of the decoder as the build computes them on the body held.
DataOffset == usize_add(4, decoder.meta_length, decoder.bits, decoder.overflow_checks)

DataStart == usize_add(DataOffset.value, 4, decoder.bits, decoder.overflow_checks)

DataEnd == usize_add(DataStart.value, decoder.data_length, decoder.bits, decoder.overflow_checks)

\* The sum came out as the sum of the integers.
Exact(sum, integer) == ~sum.panic /\ sum.value = integer

\* C39: the offset arithmetic of the decoder never wraps: on a body whose length
\* prefixes were read, 4 + metadata_len, 4 + metadata_len + 4 and
\* 4 + metadata_len + 4 + blob_len computed in usize equal the sums of the integers,
\* on the narrow and on the wide target.
C39_OffsetsNeverWrap ==
    (decoder.result # "none" /\ decoder.len >= 4)
    => /\ Exact(DataOffset, 4 + decoder.meta_length)
       /\ Exact(DataStart, 4 + decoder.meta_length + 4)
       /\ decoder.len >= 4 + decoder.meta_length + 4
          => Exact(DataEnd, 4 + decoder.meta_length + 4 + decoder.data_length)

\* The name handed to crate_prefix, as the string of its characters.
NameChars == [i \in 1 .. Len(prefix.name) |-> prefix.name[i].ch]

\* The sharding prefix of the name held, for a name of length n.
ShardingPrefix(n) ==
    CASE n = 1 -> <<"1">>
      [] n = 2 -> <<"2">>
      [] n = 3 -> <<"3", "/", NameChars[1]>>
      [] OTHER -> <<NameChars[1], NameChars[2], "/", NameChars[3], NameChars[4]>>

\* C31: crate_prefix maps every crate name of length at least one to its
\* sharding prefix: "1" for length one, "2" for two, "3/" and the first
\* character for three, and the first two characters, "/", the third and the
\* fourth for four or more; the length read as chars or as bytes.
C31_PrefixOfEveryName ==
    (prefix.called /\ Len(prefix.name) >= 1)
    => /\ ~prefix.out.panic
       /\ \/ prefix.out.value = ShardingPrefix(Len(prefix.name))
          \/ prefix.out.value = ShardingPrefix(str_len(prefix.name))

\* C36: every record present in the entry store has at least one version, after
\* any sequence of publishes, yanks and mirror fetches, a fetch that upstream
\* answers with an empty body included.
C36_RecordHasVersion ==
    \A name \in Names :
        IsSome(get_crate(name)) => Len(Unwrap(get_crate(name)).versions) >= 1

\* C35: every version string stored in any record of the entry store parses as
\* semver, after any sequence of publishes and mirror fetches.
C35_StoredVersionsParse ==
    \A name \in Names :
        IsSome(get_crate(name))
        => \A i \in 1 .. Len(Unwrap(get_crate(name)).versions) :
               IsSome(Version_parse(Unwrap(get_crate(name)).versions[i].pkg.vers))

\* The versions of the record the publish t read.
SeenVersions(t) == IF IsSome(seen[t]) THEN Unwrap(seen[t]).versions ELSE <<>>

\* The publish t carries a valid version that is lower than some version of the
\* local crate it read and equal to none.
LowerThanStored(t) ==
    /\ req[t].op = "add_crate" /\ pc[t] # "idle"
    /\ IsSome(seen[t]) /\ Unwrap(seen[t]).is_local
    /\ IsSome(Version_parse(req[t].vers))
    /\ \E i \in 1 .. Len(SeenVersions(t)) :
           /\ IsSome(Version_parse(SeenVersions(t)[i].pkg.vers))
           /\ VersionLess(Unwrap(Version_parse(req[t].vers)),
                          Unwrap(Version_parse(SeenVersions(t)[i].pkg.vers)))
    /\ \A i \in 1 .. Len(SeenVersions(t)) : SeenVersions(t)[i].pkg.vers # req[t].vers

\* C33: add_crate is insert-and-resort.  A publish of a valid version lower than
\* a stored version of the local crate, and equal to none, is not rejected: it
\* goes on to insert, and is answered 200 unless the write of the crate file
\* fails; once inserted, the stored versions are those read plus the new one,
\* strictly ascending by parsed version.
C33_InsertAndResort ==
    \A t \in Tasks :
        LowerThanStored(t)
        => /\ pc[t] = "done" => (resp[t].status = 200 \/ files[<<req[t].name, req[t].vers>>] = None)
           /\ pc[t] # "insert"
              => /\ StrictlyAscending(StoredVersions(req[t].name))
                 /\ Len(StoredVersions(req[t].name)) = Len(SeenVersions(t)) + 1
                 /\ HasVersion(req[t].name, req[t].vers)
                 /\ \A i \in 1 .. Len(SeenVersions(t)) :
                        HasVersion(req[t].name, SeenVersions(t)[i].pkg.vers)

\* C33 witness: 1.2.0 has been published to a crate holding 1.10.0 and 2.0.0 and
\* answered 200; it is stored first.
C33_Witness ==
    \E t \in Tasks :
        /\ LowerThanStored(t) /\ Answered200(t, "add_crate") /\ req[t].vers = "1.2.0"
        /\ Len(SeenVersions(t)) = 2
        /\ StoredVersions(req[t].name)[1].pkg.vers = "1.2.0"

\* The checksum the stored record of (name, vers) carries belongs to the stored
\* crate file of (name, vers).
BlobMatchesChecksum(name, vers) ==
    /\ IsSome(files[<<name, vers>>])
    /\ \A i \in 1 .. Len(StoredVersions(name)) :
           StoredVersions(name)[i].pkg.vers = vers
           => StoredVersions(name)[i].pkg.cksum = Sha256Hex(Unwrap(files[<<name, vers>>]))

\* C37: at most one publish request for a given (name, version) is accepted,
\* also when two of them overlap: no two are answered 200, and the crate file
\* stored under (name, version) belongs to the checksum the record carries.
C37_OneAcceptedPublish ==
    \A t \in Tasks :
        Answered200(t, "add_crate")
        => /\ \A u \in Tasks \ {t} :
                 ~ /\ Answered200(u, "add_crate")
                   /\ req[u].name = req[t].name /\ req[u].vers = req[t].vers
           /\ BlobMatchesChecksum(req[t].name, req[t].vers)

\* C32: every call of the atomic mutator terminates under any contention: a call
\* that is in its conditional-write loop returns (Ok, the transform's error, or
\* Conflict once its attempts are exhausted); it never retries forever.
C32_MutatorTerminates ==
    \A t \in Tasks : (pc[t] = "cas" /\ req[t].op = "modify_crate") ~> (pc[t] = "done")

\* C38: the token store holds at most one record per (username, label) at every
\* reachable state, also when two create_token calls for the same username and
\* label overlap: at most one of them returns a token.
C38_OneRecordPerLabel ==
    /\ \A username \in Usernames, label \in Labels :
           Cardinality(matching_tokens(username, label)) <= 1
    /\ \A t \in Tasks, u \in Tasks :
           ( /\ t # u /\ u \in conc[t]
             /\ Answered200(t, "create_token") /\ Answered200(u, "create_token")
             /\ req[t].username = req[u].username /\ req[t].label = req[u].label )
           => (resp[t].body = None \/ resp[u].body = None)

\* C34: operations on one crate name leave every other name untouched: a step of
\* a publish, yank, unyank or metadata read for name A changes neither the
\* record nor the crate files of any name B # A, in any interleaving.
C34_OtherNamesUntouched ==
    [][ \A t \in Tasks :
          pc'[t] # pc[t] /\ req'[t].op \in {"add_crate", "yank_crate", "unyank_crate", "crate_metadata"}
          => \A B \in Names \ {req'[t].name} :
                /\ crate_tree'[B] = crate_tree[B]
                /\ \A vers \in VersionStrings : files'[<<B, vers>>] = files[<<B, vers>>] ]_vars

====
